---- MODULE Spec2Model ----
(***************************************************************************)
(* Model of the SDL platform layer of DGen (src/sdl/sdl.cpp) and of the    *)
(* main loop that drives it (src/main.cpp).                                *)
(*                                                                         *)
(* The specifications of this module:                                      *)
(*   SpecCbuf    the circular buffer cbuf_t with cbuf_write, cbuf_read and *)
(*               snd_callback applied to it in arbitrary sequences;        *)
(*   SpecSound   the audio driver: pd_sound_init / pd_sound_deinit /       *)
(*               pd_sound_write / pd_sound_rp / pd_sound_wp on the main    *)
(*               thread, interleaved statement by statement with the       *)
(*               audio thread that runs snd_callback;                      *)
(*   SpecFilters the filters stack and its rebuild filters_stack_update;   *)
(*   SpecStage   one stage of the stack, filter_scale or filter_stretch,   *)
(*               run frame after frame on its pair of descriptors;         *)
(*   SpecFrames  the filters stack with pd_graphics_update running every   *)
(*               stage on the descriptors the rebuild wired;               *)
(*   SpecVideo   pd_graphics_init and pd_graphics_reinit with screen_init; *)
(*   SpecEvents  the loop of main() and pd_handle_events: key and mouse    *)
(*               events in the six modes, the Game Genie input and the     *)
(*               calibration;                                              *)
(*   SpecFreeze  stop_events, restart_events and manage_calibration called *)
(*               in any order on the freeze count;                         *)
(*   SpecCombos  manage_combos and check_combos on the array combos[];     *)
(*   SpecLoop    the loop of main() and pd_handle_events on a finite queue *)
(*               of events, up to the return of main().                    *)
(***************************************************************************)
EXTENDS Integers, Sequences, FiniteSets, TLC

VARIABLES
    cbuf,        \* SpecCbuf: the cbuf_t under test: i, s, size, data
    last,        \* SpecCbuf: record of the last call: its arguments, results and the buffer before it
    written,     \* SpecCbuf: every byte handed to cbuf_write so far, in order
    readout,     \* SpecCbuf: every byte returned by cbuf_read so far, in order
    overflowed,  \* SpecCbuf: some cbuf_write did not fit in the free space
    sound,       \* SpecSound: static struct sound: rate, samples, cbuf
    sndi,        \* SpecSound: struct sndinfo sndi: len (the storage lr is in heap)
    heap,        \* SpecSound: state of the pointers sound.cbuf.data and sndi.lr
    dev,         \* SpecSound: the SDL audio device: "closed", "paused", "playing"
    lock,        \* SpecSound: holder of the audio lock: "none", "main", "audio"
    mpc,         \* SpecSound: statement the main thread is at
    caller,      \* SpecSound: "init" while pd_sound_deinit runs inside pd_sound_init
    loc,         \* SpecSound: locals of the running call: samples, the obtained SDL_AudioSpec, ret
    apc,         \* SpecSound: statement the audio thread is at
    hist,        \* SpecSound: the last two completed calls of the main thread and their results
    snap,        \* SpecSound: the driver state at the start of a call that follows pd_sound_deinit
    misuse,      \* SpecSound: SDL_CloseAudio on a closed device or free() of a freed block happened
    filters_stack,          \* SpecFilters: filters_stack[], addresses of filters_available entries
    filters_stack_size,     \* SpecFilters: filters_stack_size
    filters_stack_default,  \* SpecFilters: filters_stack_default
    filters_stack_data_buf, \* SpecFilters: filters_stack_data_buf[2], "NULL" or "live"
    filters_stack_data,     \* SpecFilters: filters_stack_data[], the descriptors
    screen_bytes,           \* SpecFilters: screen.pitch * screen.height, 0 or not
    filters_err,            \* SpecFilters: an assert failed or an invalid filter pointer was read
    ndebug,                 \* SpecFilters: the build defines NDEBUG
    flast,                  \* SpecFilters: the last operation on the stack and the stack before it
    fin,          \* SpecStage: the input descriptor of the stage: width, height, pitch
    fout,         \* SpecStage: the output descriptor of the stage: width, height, pitch, data, updated, failed
    scr,          \* SpecStage: struct screen: width, height, pitch, Bpp, x_scale, y_scale
    dgen_aspect,  \* SpecStage: the rc variable dgen_aspect
    sfilter,      \* SpecStage: the filter of the stage, "scale" or "stretch"
    slast,        \* SpecStage: the last run of the stage: descriptors before it, what it attempted and ran
    video,        \* SpecVideo: static struct video: width, height, hz, is_pal
    gfx,          \* SpecVideo: once of screen_init, mdscr, SDL's video subsystem, dgen_x_scale, dgen_y_scale, position in the call
    glast,        \* SpecVideo: the last pd_graphics_init / pd_graphics_reinit: arguments, result, state before it
    stopped,      \* static int stopped
    events,                  \* SpecEvents: static enum events events, the mode
    pd_freeze,               \* SpecEvents: bool pd_freeze
    pd_freeze_ref,           \* SpecEvents: static unsigned int pd_freeze_ref
    calibrating,             \* SpecEvents: static bool calibrating
    calibrating_controller,  \* SpecEvents: static unsigned int calibrating_controller
    calibration_steps,       \* SpecEvents: calibration_steps[]: once, twice, type, code
    control,                 \* SpecEvents: control[]: pressed, coord
    rc,                      \* SpecEvents: the bindings of the controls: k the keysym, m the mouse motion
    input,                   \* SpecEvents: input and buf of manage_game_genie: the string, pos, size
    loop,                    \* SpecEvents: where main() is: in its loop before the frame, in pd_handle_events, out of the loop
    elast,                   \* SpecEvents: the last event handled: the mode before it, the handlers called, the value returned
    combos,  \* SpecCombos: static struct rc_binding_item combos[]: assigned, type, code
    held,    \* SpecCombos: the codes that are held down, in the order they went down
    kpress,  \* SpecKeys: static uint16_t kpress[]: the unicode translation each key went down with
    clast,   \* SpecCombos: the last call of manage_combos or check_combos, the array before it, whether more codes than the array has entries were ever held
    shot,    \* SpecShot: do_screenshot: its static n, the files of the screenshots directory, the position in the call
    kb       \* SpecKb: kb_input: the input buffer, history, history_pos, history_len, the last key and the accesses it made

cbufVars == <<cbuf, last, written, readout, overflowed>>
filterVars == <<filters_stack, filters_stack_size, filters_stack_default,
                filters_stack_data_buf, filters_stack_data, screen_bytes,
                filters_err, ndebug, flast>>
videoVars == <<video, gfx, glast>>
evVars == <<events, pd_freeze, pd_freeze_ref, calibrating,
            calibrating_controller, calibration_steps, control, rc, input,
            loop, elast>>
comboVars == <<combos, held, clast, kpress>>
shotVars == <<shot>>
kbVars == <<kb>>
stageVars == <<fin, fout, scr, dgen_aspect, sfilter, slast>>
soundVars == <<sound, sndi, heap, dev, lock, mpc, caller, loc, apc, hist, snap, misuse>>

----------------------------------------------------------------------------
(* Bounds *)

\* Largest capacity explored besides the capacity 16 of the end-to-end scenario.
MaxCap == 3
\* Largest size argument of one cbuf_write / cbuf_read / snd_callback call.
MaxLen == 4
\* Total number of bytes written in one behaviour.
MaxTotal == 5
\* uint8_t values; cbuf_write and cbuf_read only copy bytes, so two values
\* are enough to tell any two positions of the stream apart.
Byte == {0, 1}
\* Content of a destination byte the callee has not stored to.
Untouched == -1

Capacities == (1..MaxCap) \cup {16}

----------------------------------------------------------------------------
(* Helpers on sequences and arrays *)

Min(a, b) == IF a < b THEN a ELSE b

\* Sequences over S of length exactly n.
SeqsOfLen(S, n) == [1..n -> S]

\* The last n elements of sequence q (all of q when it is shorter).
LastN(n, q) == IF Len(q) <= n THEN q ELSE SubSeq(q, Len(q) - n + 1, Len(q))

\* memcpy(&dst[d], &src[o], n) on 0-based arrays dst and src.
memcpy(dst, d, src, o, n) ==
    [x \in DOMAIN dst |-> IF x >= d /\ x < d + n THEN src[o + (x - d)] ELSE dst[x]]

\* memset(&dst[d], v, n) on a 0-based array.
memset(dst, d, v, n) ==
    [x \in DOMAIN dst |-> IF x >= d /\ x < d + n THEN v ELSE dst[x]]

\* A 0-based array holding the elements of sequence q.
ArrayOf(q) == [x \in 0..(Len(q) - 1) |-> q[x + 1]]

\* The sequence of the first n elements of 0-based array a.
SeqOf(a, n) == [x \in 1..n |-> a[x - 1]]

----------------------------------------------------------------------------
(* Circular buffer: cbuf_t, cbuf_write, cbuf_read *)

\* cbuf_write with the read index advanced past the end of the storage
\* (the "% cbuf->size" of line 166 left out).
cbuf_write_nowrap(c, src, size0) ==
    LET clamp == size0 > c.size
        off   == IF clamp THEN size0 - c.size ELSE 0
        size  == IF clamp THEN c.size ELSE size0
        k1    == c.size - c.s
        j     == (c.i + c.s) % c.size
        i2    == IF size > k1 THEN c.i + (size - k1) ELSE c.i
        s2    == IF size > k1 THEN c.size ELSE c.s + size
        k2    == c.size - j
        data2 == IF k2 >= size
                 THEN memcpy(c.data, j, src, off, size)
                 ELSE memcpy(memcpy(c.data, j, src, off, k2),
                             0, src, off + k2, size - k2)
    IN  [cbuf |-> [i |-> i2, s |-> s2, size |-> c.size, data |-> data2],
         ret  |-> size]

\* cbuf_write keeping the leading bytes of an oversized source
\* (the "src += (size - cbuf->size)" of line 160 left out).
cbuf_write_head(c, src, size0) ==
    LET clamp == size0 > c.size
        off   == 0
        size  == IF clamp THEN c.size ELSE size0
        k1    == c.size - c.s
        j     == (c.i + c.s) % c.size
        i2    == IF size > k1 THEN (c.i + (size - k1)) % c.size ELSE c.i
        s2    == IF size > k1 THEN c.size ELSE c.s + size
        k2    == c.size - j
        data2 == IF k2 >= size
                 THEN memcpy(c.data, j, src, off, size)
                 ELSE memcpy(memcpy(c.data, j, src, off, k2),
                             0, src, off + k2, size - k2)
    IN  [cbuf |-> [i |-> i2, s |-> s2, size |-> c.size, data |-> data2],
         ret  |-> size]

\* size_t cbuf_write(cbuf_t *cbuf, uint8_t *src, size_t size)
\* src is the 0-based source array, size0 its length.
cbuf_write(c, src, size0) ==
    LET clamp == size0 > c.size
        off   == IF clamp THEN size0 - c.size ELSE 0
        size  == IF clamp THEN c.size ELSE size0
        k1    == c.size - c.s
        j     == (c.i + c.s) % c.size
        i2    == IF size > k1 THEN (c.i + (size - k1)) % c.size ELSE c.i
        s2    == IF size > k1 THEN c.size ELSE c.s + size
        k2    == c.size - j
        data2 == IF k2 >= size
                 THEN memcpy(c.data, j, src, off, size)
                 ELSE memcpy(memcpy(c.data, j, src, off, k2),
                             0, src, off + k2, size - k2)
    IN  [cbuf |-> [i |-> i2, s |-> s2, size |-> c.size, data |-> data2],
         ret  |-> size]

\* cbuf_read whose wrapped second copy restarts at the read index instead of
\* the start of the storage.
cbuf_read_badwrap(dst, c, size0) ==
    LET size == IF size0 > c.s THEN c.s ELSE size0
        k    == c.size - c.i
        dst2 == IF (c.i + size) > c.size
                THEN memcpy(memcpy(dst, 0, c.data, c.i, k),
                            k, c.data, c.i - (size - k), size - k)
                ELSE memcpy(dst, 0, c.data, c.i, size)
    IN  [dst  |-> dst2,
         cbuf |-> [i |-> (c.i + size) % c.size, s |-> c.s - size,
                   size |-> c.size, data |-> c.data],
         ret  |-> size]

\* cbuf_read clamping the request to the capacity instead of the occupied size.
cbuf_read_capclamp(dst, c, size0) ==
    LET size == IF size0 > c.size THEN c.size ELSE size0
        k    == c.size - c.i
        dst2 == IF (c.i + size) > c.size
                THEN memcpy(memcpy(dst, 0, c.data, c.i, k),
                            k, c.data, 0, size - k)
                ELSE memcpy(dst, 0, c.data, c.i, size)
    IN  [dst  |-> dst2,
         cbuf |-> [i |-> (c.i + size) % c.size, s |-> c.s - size,
                   size |-> c.size, data |-> c.data],
         ret  |-> size]

\* size_t cbuf_read(uint8_t *dst, cbuf_t *cbuf, size_t size)
\* dst is the 0-based destination array.
cbuf_read(dst, c, size0) ==
    LET size == IF size0 > c.s THEN c.s ELSE size0
        k    == c.size - c.i
        dst2 == IF (c.i + size) > c.size
                THEN memcpy(memcpy(dst, 0, c.data, c.i, k),
                            k, c.data, 0, size - k)
                ELSE memcpy(dst, 0, c.data, c.i, size)
    IN  [dst  |-> dst2,
         cbuf |-> [i |-> (c.i + size) % c.size, s |-> c.s - size,
                   size |-> c.size, data |-> c.data],
         ret  |-> size]

\* snd_callback without the memset that fills the shortfall with silence.
snd_callback_nofill(stream, c, len) ==
    LET r == cbuf_read(stream, c, len)
    IN  [stream |-> r.dst, cbuf |-> r.cbuf, wrote |-> r.ret]

\* static void snd_callback(void *, Uint8 *stream, int len)
snd_callback(stream, c, len) ==
    LET r     == cbuf_read(stream, c, len)
        wrote == r.ret
    IN  IF wrote = len
        THEN [stream |-> r.dst, cbuf |-> r.cbuf, wrote |-> wrote]
        ELSE [stream |-> memset(r.dst, wrote, 0, len - wrote),
              cbuf |-> r.cbuf, wrote |-> wrote]

\* The occupied bytes of a buffer in read order.
Content(c) == [x \in 1..c.s |-> c.data[(c.i + x - 1) % c.size]]

\* A buffer as calloc'ed and reset by pd_sound_init: empty, zero filled.
EmptyCbuf(n) == [i |-> 0, s |-> 0, size |-> n, data |-> [x \in 0..(n - 1) |-> 0]]

NoCall == [op |-> "none", pre |-> EmptyCbuf(1), src |-> <<>>, len |-> 0,
           ret |-> 0, dst |-> <<>>]

\* The variables no action on the buffer under test changes.
othersOfCbuf == <<soundVars, filterVars, stageVars, videoVars, stopped, evVars,
    comboVars, shotVars, kbVars>>

\* The buffer under test: any capacity, empty.
CbufStart ==
    /\ \E n \in Capacities : cbuf = EmptyCbuf(n)
    /\ last = NoCall
    /\ written = <<>>
    /\ readout = <<>>
    /\ overflowed = FALSE

\* The buffer under test in the specifications that do not exercise it.
CbufRest ==
    /\ cbuf = EmptyCbuf(1)
    /\ last = NoCall
    /\ written = <<>>
    /\ readout = <<>>
    /\ overflowed = FALSE

\* One call cbuf_write(&cbuf, src, n) with any n bytes.
CbufWrite ==
    \E n \in 0..MaxLen :
      /\ Len(written) + n <= MaxTotal
      /\ \E src \in SeqsOfLen(Byte, n) :
           LET r == cbuf_write(cbuf, ArrayOf(src), n) IN
           /\ cbuf' = r.cbuf
           /\ last' = [op |-> "write", pre |-> cbuf, src |-> src, len |-> n,
                       ret |-> r.ret, dst |-> <<>>]
           /\ written' = written \o src
           /\ overflowed' = (overflowed \/ (cbuf.s + n > cbuf.size))
           /\ UNCHANGED readout
           /\ UNCHANGED othersOfCbuf

\* One call cbuf_read(dst, &cbuf, n) into a destination of n bytes.
CbufRead ==
    \E n \in 0..MaxLen :
      LET r == cbuf_read([x \in 0..(n - 1) |-> Untouched], cbuf, n) IN
      /\ cbuf' = r.cbuf
      /\ last' = [op |-> "read", pre |-> cbuf, src |-> <<>>, len |-> n,
                  ret |-> r.ret, dst |-> SeqOf(r.dst, n)]
      /\ readout' = readout \o SeqOf(r.dst, r.ret)
      /\ UNCHANGED <<written, overflowed>>
      /\ UNCHANGED othersOfCbuf

\* One invocation snd_callback(NULL, stream, len) by the audio device.
SndCallback ==
    \E len \in 0..MaxLen :
      LET r == snd_callback([x \in 0..(len - 1) |-> Untouched], cbuf, len) IN
      /\ cbuf' = r.cbuf
      /\ last' = [op |-> "callback", pre |-> cbuf, src |-> <<>>, len |-> len,
                  ret |-> r.wrote, dst |-> SeqOf(r.stream, len)]
      /\ readout' = readout \o SeqOf(r.stream, r.wrote)
      /\ UNCHANGED <<written, overflowed>>
      /\ UNCHANGED othersOfCbuf


----------------------------------------------------------------------------
(* Audio driver: pd_sound_init, pd_sound_deinit, pd_sound_write,           *)
(* pd_sound_rp, pd_sound_wp on the main thread; the SDL audio thread that  *)
(* calls snd_callback.  One action per statement group of the main thread, *)
(* so that the audio thread can run between any two of them.               *)
(*                                                                         *)
(* What SDL does, taken from its documented behaviour: a device opened by  *)
(* SDL_OpenAudio starts paused; the callback is only started while the     *)
(* device is playing and runs with the audio lock held; SDL_CloseAudio     *)
(* returns after the audio thread has left the callback.                   *)

\* Largest `samples` argument of pd_sound_init (dgen_soundsegs * (rate / dgen_hz)).
MaxSegSamples == 1
\* Largest spec.samples the device reports.
MaxSpecSamples == 2
\* Largest sndi.len, i.e. spec.freq / video.hz; spec.freq is counted in
\* units of video.hz.
MaxFrameLen == 2

\* The variables no action of the audio driver changes.
othersOfSound == <<cbufVars, filterVars, stageVars, videoVars, stopped, evVars,
    comboVars, shotVars, kbVars>>

ZeroSound == [rate |-> 0, samples |-> 0, cbuf |-> EmptyCbuf(0)]

NoLocals == [samples |-> 0, spec_freq |-> 0, spec_samples |-> 0,
             spec_ok |-> FALSE, ret |-> 0, closed |-> FALSE]

\* What pd_sound_deinit is specified to leave alone or reset.
DriverState == <<sound, sndi, heap, dev>>

NoSnap == <<ZeroSound, [len |-> 0], [data |-> "NULL", lr |-> "NULL"], "closed">>

\* The static initialisers: sound and sndi are zero, no device is open.
SoundStart ==
    /\ sound = ZeroSound
    /\ sndi = [len |-> 0]
    /\ heap = [data |-> "NULL", lr |-> "NULL"]
    /\ dev = "closed"
    /\ lock = "none"
    /\ mpc = "idle"
    /\ caller = "none"
    /\ loc = NoLocals
    /\ apc = "idle"
    /\ hist = <<>>
    /\ snap = NoSnap
    /\ misuse = FALSE

\* free(p) seen from the pointer p: a live block becomes a freed one whose
\* address p still holds; free(NULL) does nothing.
free(p) == IF p = "live" THEN "freed" ELSE p

\* free(p) of a block that was already freed.
DoubleFree(p) == p = "freed"

\* Return of the top-level call fn with result r.
\* closed tells whether the call went through SDL_CloseAudio.
Return(fn, r, closed) ==
    /\ mpc' = "idle"
    /\ hist' = LastN(2, Append(hist, [fn |-> fn, ret |-> r, closed |-> closed]))

\* A top-level call starts.  The driver state it starts from is remembered
\* when the call is the first one ever or follows a pd_sound_deinit.
Enter ==
    /\ mpc = "idle"
    /\ snap' = IF hist = <<>> \/ hist[Len(hist)].fn = "deinit"
               THEN DriverState ELSE NoSnap

\* void SDL_LockAudio(void), called by the main thread.
SDL_LockAudio ==
    /\ lock = "none"
    /\ lock' = "main"

\* void SDL_UnlockAudio(void), called by the main thread.
SDL_UnlockAudio == lock' = IF lock = "main" THEN "none" ELSE lock

(* pd_sound_write *)

\* line 1880: if (!sound.cbuf.size) return;
PdSoundWrite_test ==
    /\ Enter
    /\ IF sound.cbuf.size = 0
       THEN Return("write", 0, FALSE) /\ UNCHANGED loc
       ELSE mpc' = "w_lock" /\ loc' = NoLocals /\ UNCHANGED hist
    /\ UNCHANGED <<sound, sndi, heap, dev, lock, caller, apc, misuse>>
    /\ UNCHANGED othersOfSound

\* pd_sound_write going on to cbuf_write without taking the audio lock.
PdSoundWrite_nolock ==
    /\ mpc = "w_lock"
    /\ mpc' = "w_cbuf"
    /\ UNCHANGED <<sound, sndi, heap, dev, lock, caller, loc, apc, hist, snap, misuse>>
    /\ UNCHANGED othersOfSound

\* line 1882: SDL_LockAudio();
PdSoundWrite_lock ==
    /\ mpc = "w_lock"
    /\ SDL_LockAudio
    /\ mpc' = "w_cbuf"
    /\ UNCHANGED <<sound, sndi, heap, dev, caller, loc, apc, hist, snap, misuse>>
    /\ UNCHANGED othersOfSound

\* line 1883: cbuf_write(&sound.cbuf, (uint8_t *)sndi.lr, (sndi.len * 4));
\* sndi.lr holds the frame one_frame has just produced.
PdSoundWrite_cbuf ==
    /\ mpc = "w_cbuf"
    /\ \E v \in Byte :
         LET n == sndi.len * 4
             r == cbuf_write(sound.cbuf, [x \in 0..(n - 1) |-> v], n)
         IN  sound' = [sound EXCEPT !.cbuf = r.cbuf]
    /\ mpc' = "w_unlock"
    /\ UNCHANGED <<sndi, heap, dev, lock, caller, loc, apc, hist, snap, misuse>>
    /\ UNCHANGED othersOfSound

\* line 1884: SDL_UnlockAudio(); and return
PdSoundWrite_unlock ==
    /\ mpc = "w_unlock"
    /\ SDL_UnlockAudio
    /\ Return("write", 0, loc.closed)
    /\ UNCHANGED <<sound, sndi, heap, dev, caller, loc, apc, snap, misuse>>
    /\ UNCHANGED othersOfSound

(* pd_sound_rp and pd_sound_wp *)

\* lines 1855 and 1867: if (!sound.cbuf.size) return 0;
PdSoundRpWp_test ==
    /\ Enter
    /\ \E fn \in {"rp", "wp"} :
         IF sound.cbuf.size = 0
         THEN Return(fn, 0, FALSE) /\ UNCHANGED loc
         ELSE mpc' = fn \o "_lock" /\ loc' = NoLocals /\ UNCHANGED hist
    /\ UNCHANGED <<sound, sndi, heap, dev, lock, caller, apc, misuse>>
    /\ UNCHANGED othersOfSound

\* lines 1857 and 1869: SDL_LockAudio();
PdSoundRpWp_lock ==
    /\ mpc \in {"rp_lock", "wp_lock"}
    /\ SDL_LockAudio
    /\ mpc' = IF mpc = "rp_lock" THEN "rp_read" ELSE "wp_read"
    /\ UNCHANGED <<sound, sndi, heap, dev, caller, loc, apc, hist, snap, misuse>>
    /\ UNCHANGED othersOfSound

\* line 1858: ret = sound.cbuf.i;
PdSoundRp_read ==
    /\ mpc = "rp_read"
    /\ loc' = [loc EXCEPT !.ret = sound.cbuf.i]
    /\ mpc' = "rp_unlock"
    /\ UNCHANGED <<sound, sndi, heap, dev, lock, caller, apc, hist, snap, misuse>>
    /\ UNCHANGED othersOfSound

\* line 1870: ret = ((sound.cbuf.i + sound.cbuf.s) % sound.cbuf.size);
PdSoundWp_read ==
    /\ mpc = "wp_read"
    /\ loc' = [loc EXCEPT !.ret = (sound.cbuf.i + sound.cbuf.s) % sound.cbuf.size]
    /\ mpc' = "wp_unlock"
    /\ UNCHANGED <<sound, sndi, heap, dev, lock, caller, apc, hist, snap, misuse>>
    /\ UNCHANGED othersOfSound

\* lines 1859-1860 and 1871-1872: SDL_UnlockAudio(); return (ret >> 2);
PdSoundRpWp_unlock ==
    /\ mpc \in {"rp_unlock", "wp_unlock"}
    /\ SDL_UnlockAudio
    /\ Return(IF mpc = "rp_unlock" THEN "rp" ELSE "wp", loc.ret \div 4, loc.closed)
    /\ UNCHANGED <<sound, sndi, heap, dev, caller, loc, apc, snap, misuse>>
    /\ UNCHANGED othersOfSound

(* pd_sound_deinit *)

\* A call of pd_sound_deinit from dgen's clean_up, pd_quit or prompt_cmd_load.
PdSoundDeinit_call ==
    /\ Enter
    /\ mpc' = "d_test"
    /\ caller' = "none"
    /\ loc' = NoLocals
    /\ UNCHANGED <<sound, sndi, heap, dev, lock, apc, hist, misuse>>
    /\ UNCHANGED othersOfSound

\* line 1837: if (sound.cbuf.data.i16 != NULL)
PdSoundDeinit_test ==
    /\ mpc = "d_test"
    /\ mpc' = IF heap.data # "NULL" THEN "d_pause" ELSE "d_reset"
    /\ UNCHANGED <<sound, sndi, heap, dev, lock, caller, loc, apc, hist, snap, misuse>>
    /\ UNCHANGED othersOfSound

\* line 1838: SDL_PauseAudio(1);
PdSoundDeinit_pause ==
    /\ mpc = "d_pause"
    /\ dev' = IF dev = "playing" THEN "paused" ELSE dev
    /\ mpc' = "d_close"
    /\ UNCHANGED <<sound, sndi, heap, lock, caller, loc, apc, hist, snap, misuse>>
    /\ UNCHANGED othersOfSound

\* line 1839: SDL_CloseAudio(); it returns once the audio thread has ended.
PdSoundDeinit_close ==
    /\ mpc = "d_close"
    /\ apc = "idle"
    /\ misuse' = (misuse \/ dev = "closed")
    /\ dev' = "closed"
    /\ loc' = [loc EXCEPT !.closed = TRUE]
    /\ mpc' = "d_free"
    /\ UNCHANGED <<sound, sndi, heap, lock, caller, apc, hist, snap>>
    /\ UNCHANGED othersOfSound

\* line 1840: free((void *)sound.cbuf.data.i16);
PdSoundDeinit_free ==
    /\ mpc = "d_free"
    /\ misuse' = (misuse \/ DoubleFree(heap.data))
    /\ heap' = [heap EXCEPT !.data = free(heap.data)]
    /\ mpc' = "d_reset"
    /\ UNCHANGED <<sound, sndi, dev, lock, caller, loc, apc, hist, snap>>
    /\ UNCHANGED othersOfSound

\* pd_sound_deinit without the memset of line 1842 and the NULL of line 1844:
\* the pointers keep the addresses of the freed blocks.
PdSoundDeinit_noreset ==
    /\ mpc = "d_reset"
    /\ misuse' = (misuse \/ DoubleFree(heap.lr))
    /\ heap' = [heap EXCEPT !.lr = free(heap.lr)]
    /\ IF caller = "init"
       THEN mpc' = "i_open" /\ caller' = "none" /\ UNCHANGED hist
       ELSE Return("deinit", 0, loc.closed) /\ UNCHANGED caller
    /\ UNCHANGED <<sound, sndi, dev, lock, loc, apc, snap>>
    /\ UNCHANGED othersOfSound

\* lines 1842-1846: memset(&sound, 0, sizeof(sound)); free((void*)sndi.lr);
\* sndi.lr = NULL; SDL_QuitSubSystem(SDL_INIT_AUDIO); and return, into
\* pd_sound_init when it is the caller.
PdSoundDeinit_reset ==
    /\ mpc = "d_reset"
    /\ sound' = ZeroSound
    /\ misuse' = (misuse \/ DoubleFree(heap.lr))
    /\ heap' = [data |-> "NULL", lr |-> "NULL"]
    /\ IF caller = "init"
       THEN mpc' = "i_open" /\ caller' = "none" /\ UNCHANGED hist
       ELSE Return("deinit", 0, loc.closed) /\ UNCHANGED caller
    /\ UNCHANGED <<sndi, dev, lock, loc, apc, snap>>
    /\ UNCHANGED othersOfSound

(* pd_sound_init *)

\* A call pd_sound_init(freq, samples); line 1751: pd_sound_deinit();
PdSoundInit_call ==
    /\ Enter
    /\ \E n \in 0..MaxSegSamples : loc' = [NoLocals EXCEPT !.samples = n]
    /\ mpc' = "d_test"
    /\ caller' = "init"
    /\ UNCHANGED <<sound, sndi, heap, dev, lock, apc, hist, misuse>>
    /\ UNCHANGED othersOfSound

\* lines 1753-1776: SDL_InitSubSystem and SDL_OpenAudio; either may fail and
\* the call returns 0; otherwise the device is open, paused, with the spec
\* the hardware gave.
PdSoundInit_open ==
    /\ mpc = "i_open"
    /\ \/ /\ Return("init", 0, loc.closed)
          /\ UNCHANGED <<dev, loc>>
       \/ /\ dev' = "paused"
          /\ \E f \in 1..MaxFrameLen, n \in 1..MaxSpecSamples, ok \in BOOLEAN :
               loc' = [loc EXCEPT !.spec_freq = f, !.spec_samples = n, !.spec_ok = ok]
          /\ mpc' = "i_check"
          /\ UNCHANGED hist
    /\ UNCHANGED <<sound, sndi, heap, lock, caller, apc, snap, misuse>>
    /\ UNCHANGED othersOfSound

\* lines 1778-1797: the channels and format checks, then
\* sound.rate = freq = spec.freq; sndi.len = (spec.freq / video.hz);
\* sound.samples = spec.samples; samples += sound.samples;
\* sound.cbuf.size = (samples * (2 * (16 / 8))); sound.cbuf.i = 0; sound.cbuf.s = 0;
PdSoundInit_set ==
    /\ mpc = "i_check"
    /\ IF ~loc.spec_ok
       THEN mpc' = "e_close" /\ UNCHANGED <<sound, sndi, loc>>
       ELSE LET samples == loc.samples + loc.spec_samples IN
            /\ sound' = [rate |-> loc.spec_freq, samples |-> loc.spec_samples,
                         cbuf |-> [i |-> 0, s |-> 0, size |-> samples * (2 * (16 \div 8)),
                                   data |-> sound.cbuf.data]]
            /\ sndi' = [len |-> loc.spec_freq]
            /\ loc' = [loc EXCEPT !.samples = samples]
            /\ mpc' = "i_alloc"
    /\ UNCHANGED <<heap, dev, lock, caller, apc, hist, snap, misuse>>
    /\ UNCHANGED othersOfSound

\* lines 1802-1809: the two calloc calls; each may fail.
PdSoundInit_alloc ==
    /\ mpc = "i_alloc"
    /\ \E okLr \in BOOLEAN, okData \in BOOLEAN :
         /\ heap' = [lr |-> IF okLr THEN "live" ELSE "NULL",
                     data |-> IF okData THEN "live" ELSE "NULL"]
         /\ sound' = [sound EXCEPT !.cbuf.data =
                        IF okData THEN [x \in 0..(sound.cbuf.size - 1) |-> 0]
                        ELSE sound.cbuf.data]
         /\ mpc' = IF okLr /\ okData THEN "i_start" ELSE "e_close"
    /\ UNCHANGED <<sndi, dev, lock, caller, loc, apc, hist, snap, misuse>>
    /\ UNCHANGED othersOfSound

\* lines 1811-1815: SDL_PauseAudio(0); return 1;
PdSoundInit_start ==
    /\ mpc = "i_start"
    /\ dev' = IF dev = "paused" THEN "playing" ELSE dev
    /\ Return("init", 1, loc.closed)
    /\ UNCHANGED <<sound, sndi, heap, lock, caller, loc, apc, snap, misuse>>
    /\ UNCHANGED othersOfSound

\* line 1819 (snd_error): SDL_CloseAudio();
PdSoundInit_errclose ==
    /\ mpc = "e_close"
    /\ apc = "idle"
    /\ misuse' = (misuse \/ dev = "closed")
    /\ dev' = "closed"
    /\ loc' = [loc EXCEPT !.closed = TRUE]
    /\ mpc' = "e_free"
    /\ UNCHANGED <<sound, sndi, heap, lock, caller, apc, hist, snap>>
    /\ UNCHANGED othersOfSound

\* lines 1820-1826: free both blocks, NULL both pointers, sndi.len = 0,
\* memset(&sound, 0, sizeof(sound)); return 0;
PdSoundInit_errfree ==
    /\ mpc = "e_free"
    /\ misuse' = (misuse \/ DoubleFree(heap.lr) \/ DoubleFree(heap.data))
    /\ heap' = [data |-> "NULL", lr |-> "NULL"]
    /\ sndi' = [len |-> 0]
    /\ sound' = ZeroSound
    /\ Return("init", 0, loc.closed)
    /\ UNCHANGED <<dev, lock, caller, loc, apc, snap>>
    /\ UNCHANGED othersOfSound

(* The audio thread *)

\* The audio thread takes the audio lock and enters snd_callback; it only
\* does so while the device is playing.
Audio_enter ==
    /\ dev = "playing"
    /\ apc = "idle"
    /\ lock = "none"
    /\ lock' = "audio"
    /\ apc' = "callback"
    /\ UNCHANGED <<sound, sndi, heap, dev, mpc, caller, loc, hist, snap, misuse>>
    /\ UNCHANGED othersOfSound

\* snd_callback(NULL, stream, len) with len = spec.samples * 4 bytes runs to
\* its end; the audio thread releases the lock.
Audio_callback ==
    /\ apc = "callback"
    /\ LET len == sound.samples * 4
           r   == snd_callback([x \in 0..(len - 1) |-> Untouched], sound.cbuf, len)
       IN  sound' = [sound EXCEPT !.cbuf = r.cbuf]
    /\ lock' = IF lock = "audio" THEN "none" ELSE lock
    /\ apc' = "idle"
    /\ UNCHANGED <<sndi, heap, dev, mpc, caller, loc, hist, snap, misuse>>
    /\ UNCHANGED othersOfSound


----------------------------------------------------------------------------
(* Filters stack: filters_stack_update, filters_push, filters_insert,      *)
(* filters_remove, filters_pluck                                           *)

\* elemof(filters_stack).  The source declares 64 entries; the model keeps the
\* same code over a shorter array so that the full stack is reached.
StackElems == 4

\* The variables no action on the filters stack changes.
othersOfFilters == <<cbufVars, soundVars, stageVars, videoVars, stopped, evVars,
    comboVars, shotVars, kbVars>>

\* The names of the entries of filters_available, used as their addresses.
Filters == {"stretch", "scale"}

\* static const struct filter filters_available[]
filters_available ==
    <<[name |-> "stretch", safe |-> FALSE, ctv |-> FALSE, resize |-> TRUE],
      [name |-> "scale", safe |-> FALSE, ctv |-> FALSE, resize |-> TRUE]>>

\* The struct filter a pointer value designates.
FilterAt(p) == CHOOSE k \in 1..Len(filters_available) : filters_available[k].name = p

\* p is the address of an entry of filters_available (neither NULL nor the
\* pattern a debug build's memset leaves).
IsFilter(p) == \E k \in 1..Len(filters_available) : filters_available[k].name = p

\* f->safe; reading it through an invalid pointer is reported by the callers.
safe(p) == IF IsFilter(p) THEN filters_available[FilterAt(p)].safe ELSE FALSE

\* f->resize
resize(p) == IF IsFilter(p) THEN filters_available[FilterAt(p)].resize ELSE FALSE

\* memmove(&a[d], &a[o], n elements) on a 0-based array.
memmove(a, d, o, n) == memcpy(a, d, a, o, n)

\* A struct filter_data cleared by memset.
ZeroFd == [buf |-> "NULL", geom |-> "zero", data |-> "NULL",
           updated |-> FALSE, failed |-> FALSE]

\* in_fd of filters_stack_update: the emulated frame inside mdscr.data.
in_fd == [buf |-> "mdscr", geom |-> "video", data |-> "NULL",
          updated |-> FALSE, failed |-> FALSE]

\* out_fd of filters_stack_update: the display surface.
out_fd == [buf |-> "screen", geom |-> "screen", data |-> "NULL",
           updated |-> FALSE, failed |-> FALSE]

\* The scratch descriptor written at lines 554-560 for buffer number b.
scratch_fd(st, b) ==
    [buf |-> IF st.dbuf[b] = "NULL" THEN "NULL"
             ELSE IF b = 0 THEN "buf0" ELSE "buf1",
     geom |-> "screen", data |-> "NULL", updated |-> FALSE, failed |-> FALSE]

\* The filters state as one record: stack, size and default are
\* filters_stack, filters_stack_size and filters_stack_default; dbuf is
\* filters_stack_data_buf; fd is filters_stack_data; bytes is
\* screen.pitch * screen.height; err records a failed assert or a read
\* through an invalid filter pointer; drops counts the stages removed after
\* a failed realloc.
FiltersState ==
    [stack |-> filters_stack, size |-> filters_stack_size,
     default |-> filters_stack_default, dbuf |-> filters_stack_data_buf,
     fd |-> filters_stack_data, bytes |-> screen_bytes,
     err |-> filters_err, drops |-> 0]

\* The stages of the stack, bottom first.
StackSeq(st) == [k \in 1..st.size |-> st.stack[k - 1]]

\* Number of stages that are not on top and not safe (lines 454-463).
Unsafe(st) ==
    Cardinality({k \in 0..(st.size - 1) : ~safe(st.stack[k]) /\ k # st.size - 1})

\* Lines 511-522: remove the first filter that is not safe, st being the
\* state the loop runs in.
DropUnsafeFrom(st) ==
    LET U == {k \in 0..(st.size - 1) : ~safe(st.stack[k])} IN
    IF U = {} THEN st
    ELSE LET k0 == CHOOSE k \in U : \A m \in U : k <= m
             n  == st.size - 1
         IN  [st EXCEPT !.size = n,
                        !.stack = memmove(st.stack, k0, k0 + 1, n - k0),
                        !.drops = @ + 1,
                        !.err = @ \/ ~IsFilter(st.stack[k0])]

\* Lines 511-522 with the top of the stack removed whatever it is.
DropTop(s0) ==
    [s0 EXCEPT !.size = s0.size - 1, !.drops = @ + 1]

\* The same as DropUnsafeFrom with the state computed once, then read as a
\* value.
DropUnsafe(s0) ==
    CHOOSE r \in {DropUnsafeFrom(st) : st \in {s0}} : TRUE

\* Lines 537-564 with every unsafe stage below the top writing the first
\* scratch buffer (no buffers ^= 1).
WiredSame(st, k) ==
    IF k = 0 THEN in_fd
    ELSE IF k - 1 = st.size - 1 THEN out_fd
    ELSE IF safe(st.stack[k - 1]) THEN in_fd
    ELSE scratch_fd(st, 0)

\* Lines 537-564: the descriptor at index k after the I/O buffers update.
\* b is the number of unsafe stages below stage k - 1 that are not on top.
RECURSIVE WiredFd(_, _)
WiredFd(st, k) ==
    IF k = 0 THEN in_fd
    ELSE LET i == k - 1
             b == Cardinality({m \in 0..(i - 1) : ~safe(st.stack[m])}) % 2
         IN  IF i = st.size - 1 THEN out_fd
             ELSE IF safe(st.stack[i]) THEN WiredFd(st, i)
             ELSE scratch_fd(st, b)

Wire(st) ==
    [st EXCEPT !.fd = [k \in DOMAIN st.fd |->
                         IF k <= st.size THEN WiredFd(st, k) ELSE ZeroFd]]

\* Lines 483-527 without lines 487-490: the second buffer is kept when one
\* buffer is enough.
Realloc_keep(st, buffers0) ==
    LET buffers == IF buffers0 > 2 THEN 2 ELSE buffers0
        okAll == [st EXCEPT !.dbuf = [b \in 0..1 |->
                     IF b < buffers THEN "live" ELSE st.dbuf[b]]]
        fail0 == DropUnsafe([st EXCEPT !.dbuf[0] = "NULL"])
        fail1 == DropUnsafe([st EXCEPT !.dbuf[0] = "live", !.dbuf[1] = "NULL"])
    IN  IF st.bytes = 0
        THEN {[done |-> TRUE,
               st |-> [st EXCEPT !.dbuf = [b \in 0..1 |->
                          IF b < buffers THEN "NULL" ELSE st.dbuf[b]]]]}
        ELSE {[done |-> TRUE, st |-> okAll], [done |-> FALSE, st |-> fail0]}
             \cup (IF buffers = 2 THEN {[done |-> FALSE, st |-> fail1]} ELSE {})

\* Lines 483-527: the scratch buffers are reallocated.  Each realloc of a
\* non-zero size may fail.  The result is the set of outcomes, each either
\* done (go on to the I/O buffers update) or not (goto retry).
Realloc(st, buffers0) ==
    LET buffers == IF buffers0 > 2 THEN 2 ELSE buffers0
        s2 == IF buffers0 > 2 THEN st ELSE [st EXCEPT !.dbuf[1] = "NULL"]
        okAll == [s2 EXCEPT !.dbuf = [b \in 0..1 |->
                     IF b < buffers THEN "live" ELSE s2.dbuf[b]]]
        fail0 == DropUnsafe([s2 EXCEPT !.dbuf[0] = "NULL"])
        fail1 == DropUnsafe([s2 EXCEPT !.dbuf[0] = "live", !.dbuf[1] = "NULL"])
    IN  IF st.bytes = 0
        THEN {[done |-> TRUE,
               st |-> [s2 EXCEPT !.dbuf = [b \in 0..1 |->
                          IF b < buffers THEN "NULL" ELSE s2.dbuf[b]]]]}
        ELSE {[done |-> TRUE, st |-> okAll], [done |-> FALSE, st |-> fail0]}
             \cup (IF buffers = 2 THEN {[done |-> FALSE, st |-> fail1]} ELSE {})

\* Lines 467-470 with filters_stack_default left unset.
AddDefault_noflag(s) ==
    [s EXCEPT !.stack[0] = filters_available[1].name, !.size = 1]

\* Lines 467-470: filters_stack[0] = &filters_available[0];
\* ++filters_stack_size; filters_stack_default = true;
\* (the sequence filters_available is 1-based, so its first entry is [1]).
AddDefault(s) ==
    [s EXCEPT !.stack[0] = filters_available[1].name, !.size = 1,
              !.default = TRUE]

\* Lines 475-479 without the memmove: the top entry is lost instead of the
\* default one.
RemoveDefault_top(s) ==
    [s EXCEPT !.size = s.size - 1, !.default = FALSE]

\* Lines 475-479: --filters_stack_size; memmove(&filters_stack[0],
\* &filters_stack[1], ...); filters_stack_default = false;
RemoveDefault(s) ==
    [s EXCEPT !.size = s.size - 1,
              !.stack = memmove(s.stack, 0, 1, s.size - 1),
              !.default = FALSE]

\* filters_stack_update from the label retry to the next goto retry or to
\* the I/O buffers update (lines 445-536).
Pass(st) ==
    LET n  == st.size
        s1 == [st EXCEPT
                 !.fd = [k \in DOMAIN st.fd |-> ZeroFd],
                 !.err = @ \/ n > StackElems \/ st.fd[0].data # "NULL"
                           \/ \E k \in 0..(n - 1) : ~IsFilter(st.stack[k])]
    IN  IF n = 0
        THEN {[done |-> FALSE, st |-> AddDefault(s1)]}
        ELSE IF n > 1 /\ st.default
        THEN {[done |-> FALSE, st |-> RemoveDefault(s1)]}
        ELSE IF Unsafe(st) > 0
        THEN Realloc(s1, Unsafe(st))
        ELSE {[done |-> TRUE,
               st |-> [s1 EXCEPT !.dbuf = [b \in 0..1 |-> "NULL"]]]}

\* static void filters_stack_update(): the set of states it may return in,
\* one for each pattern of realloc failures.
RECURSIVE filters_stack_update(_)
filters_stack_update(st) ==
    UNION {IF r.done THEN {Wire(r.st)} ELSE filters_stack_update(r.st) : r \in Pass(st)}

\* The stack part of filters_push before the rebuild (lines 586-588).
push_stage(st, f) ==
    [st EXCEPT !.stack[st.size] = f,
               !.fd[st.size + 1].data = "NULL",
               !.size = st.size + 1]

\* The stack part of filters_insert before the rebuild (lines 603-607).
insert_stage(st, f) ==
    [st EXCEPT !.stack = [memmove(st.stack, 1, 0, st.size) EXCEPT ![0] = f],
               !.fd[1].data = "NULL",
               !.size = st.size + 1]

\* remove_stage without the two memmove calls: only the size changes.
remove_stage_nomove(st, index) ==
    LET stk == IF ndebug THEN st.stack ELSE [st.stack EXCEPT ![index] = "junk"]
    IN  [st EXCEPT !.size = st.size - 1, !.stack = stk]

\* Lines 643-655 and 674-686: the entry at index is taken out of the stack
\* and of the descriptors; a debug build (NDEBUG not defined) first fills
\* both with a byte pattern.
remove_stage(st, index) ==
    LET n   == st.size - 1
        stk == IF ndebug THEN st.stack ELSE [st.stack EXCEPT ![index] = "junk"]
        fd0 == IF ndebug THEN st.fd
               ELSE [st.fd EXCEPT ![index + 1] =
                       [buf |-> "junk", geom |-> "junk", data |-> "junk",
                        updated |-> TRUE, failed |-> TRUE]]
    IN  [st EXCEPT !.size = n,
                   !.stack = memmove(stk, index, index + 1, n - index),
                   !.fd = memmove(fd0, index + 1, index + 2, n - index)]

\* The loop of filters_pluck (lines 671-688) from index i on.
RECURSIVE pluck_from(_, _, _)
pluck_from(st, f, i) ==
    IF i >= st.size THEN st
    ELSE IF st.stack[i] # f THEN pluck_from(st, f, i + 1)
    ELSE pluck_from(remove_stage(st, i), f, i)

\* The filters state of the variables after an operation returned in st.
FiltersBecome(st) ==
    /\ filters_stack' = st.stack
    /\ filters_stack_size' = st.size
    /\ filters_stack_default' = st.default
    /\ filters_stack_data_buf' = st.dbuf
    /\ filters_stack_data' = st.fd
    /\ filters_err' = st.err

\* What the last operation on the stack was, on what, and from which stack.
Called(op, f, index, st) ==
    flast' = [op |-> op, f |-> f, index |-> index,
              pre |-> StackSeq(FiltersState), pre_default |-> filters_stack_default,
              rebuilt |-> TRUE, drops |-> st.drops]

\* The static initialisers: an empty stack, no buffer; screen is all zero so
\* screen.pitch * screen.height is 0.  The build is with or without NDEBUG.
FiltersStart ==
    /\ filters_stack = [k \in 0..(StackElems - 1) |-> "NULL"]
    /\ filters_stack_size = 0
    /\ filters_stack_default = FALSE
    /\ filters_stack_data_buf = [b \in 0..1 |-> "NULL"]
    /\ filters_stack_data = [k \in 0..StackElems |-> ZeroFd]
    /\ screen_bytes = 0
    /\ filters_err = FALSE
    /\ ndebug \in BOOLEAN
    /\ flast = [op |-> "none", f |-> "NULL", index |-> 0, pre |-> <<>>,
                pre_default |-> FALSE, rebuilt |-> FALSE, drops |-> 0]

\* screen_init(): the surface is (re)created, with a zero or non-zero
\* footprint, and line 1554 rehashes the filters.
ScreenInit ==
    /\ \E bytes \in {0, 1} :
         /\ screen_bytes' = bytes
         /\ \E st \in filters_stack_update([FiltersState EXCEPT !.bytes = bytes]) :
              FiltersBecome(st) /\ Called("screen_init", "NULL", 0, st)
    /\ UNCHANGED ndebug
    /\ UNCHANGED othersOfFilters

\* static void filters_push(const struct filter *f)
FiltersPush ==
    /\ \E f \in Filters \cup {"NULL"} :
         IF f = "NULL" \/ filters_stack_size = StackElems
         THEN UNCHANGED <<filters_stack, filters_stack_size, filters_stack_default,
                          filters_stack_data_buf, filters_stack_data, filters_err>>
              /\ flast' = [flast EXCEPT !.op = "push_ignored", !.f = f,
                                        !.pre = StackSeq(FiltersState),
                                        !.pre_default = filters_stack_default,
                                        !.drops = 0]
         ELSE \E st \in filters_stack_update(push_stage(FiltersState, f)) :
                FiltersBecome(st) /\ Called("push", f, 0, st)
    /\ UNCHANGED <<screen_bytes, ndebug>>
    /\ UNCHANGED othersOfFilters

\* static void filters_insert(const struct filter *f)
FiltersInsert ==
    /\ \E f \in Filters \cup {"NULL"} :
         IF f = "NULL" \/ filters_stack_size = StackElems
         THEN UNCHANGED <<filters_stack, filters_stack_size, filters_stack_default,
                          filters_stack_data_buf, filters_stack_data, filters_err>>
              /\ flast' = [flast EXCEPT !.op = "insert_ignored", !.f = f,
                                        !.pre = StackSeq(FiltersState),
                                        !.pre_default = filters_stack_default,
                                        !.drops = 0]
         ELSE \E st \in filters_stack_update(insert_stage(FiltersState, f)) :
                FiltersBecome(st) /\ Called("insert", f, 0, st)
    /\ UNCHANGED <<screen_bytes, ndebug>>
    /\ UNCHANGED othersOfFilters

\* static void filters_remove(unsigned int index)
FiltersRemove ==
    /\ \E index \in 0..StackElems :
         IF index >= filters_stack_size
         THEN UNCHANGED <<filters_stack, filters_stack_size, filters_stack_default,
                          filters_stack_data_buf, filters_stack_data, filters_err>>
              /\ flast' = [flast EXCEPT !.op = "remove_ignored", !.index = index,
                                        !.pre = StackSeq(FiltersState),
                                        !.pre_default = filters_stack_default,
                                        !.drops = 0]
         ELSE \E st \in filters_stack_update(remove_stage(FiltersState, index)) :
                FiltersBecome(st) /\ Called("remove", "NULL", index, st)
    /\ UNCHANGED <<screen_bytes, ndebug>>
    /\ UNCHANGED othersOfFilters

\* static void filters_pluck(const struct filter *f)
FiltersPluck ==
    /\ \E f \in Filters \cup {"NULL"} :
         IF f = "NULL"
         THEN UNCHANGED <<filters_stack, filters_stack_size, filters_stack_default,
                          filters_stack_data_buf, filters_stack_data, filters_err>>
              /\ flast' = [flast EXCEPT !.op = "pluck_ignored", !.f = f,
                                        !.pre = StackSeq(FiltersState),
                                        !.pre_default = filters_stack_default,
                                        !.drops = 0]
         ELSE \E st \in filters_stack_update(pluck_from(FiltersState, f, 0)) :
                FiltersBecome(st) /\ Called("pluck", f, 0, st)
    /\ UNCHANGED <<screen_bytes, ndebug>>
    /\ UNCHANGED othersOfFilters


----------------------------------------------------------------------------
(* filters_stack_update pass by pass (SpecRebuild): the operations on the   *)
(* stack write the variables, then the rebuild runs from the label retry    *)
(* once per step until it reaches the I/O buffers update.                   *)

\* No rebuild is running.
Idle == flast.rebuilt \/ flast.op = "none"

\* An operation has written the stack as in st and calls
\* filters_stack_update.
Begin(op, f, index, st) ==
    /\ Idle
    /\ FiltersBecome(st)
    /\ flast' = [op |-> op, f |-> f, index |-> index,
                 pre |-> StackSeq(FiltersState),
                 pre_default |-> filters_stack_default,
                 rebuilt |-> FALSE, drops |-> 0]
    /\ UNCHANGED ndebug
    /\ UNCHANGED othersOfFilters

\* screen_init() up to its call of filters_stack_update, line 1554.
ScreenInitBegin ==
    \E bytes \in {0, 1} :
       /\ screen_bytes' = bytes
       /\ Begin("screen_init", "NULL", 0, FiltersState)

\* filters_push up to its call of filters_stack_update, lines 582-588.
FiltersPushBegin ==
    /\ filters_stack_size # StackElems
    /\ \E f \in Filters : Begin("push", f, 0, push_stage(FiltersState, f))
    /\ UNCHANGED screen_bytes

\* filters_insert up to its call of filters_stack_update, lines 598-607.
FiltersInsertBegin ==
    /\ filters_stack_size # StackElems
    /\ \E f \in Filters : Begin("insert", f, 0, insert_stage(FiltersState, f))
    /\ UNCHANGED screen_bytes

\* filters_remove up to its call of filters_stack_update, lines 640-655.
FiltersRemoveBegin ==
    /\ \E index \in 0..(filters_stack_size - 1) :
         Begin("remove", "NULL", index, remove_stage(FiltersState, index))
    /\ UNCHANGED screen_bytes

\* filters_pluck up to its call of filters_stack_update, lines 667-688.
FiltersPluckBegin ==
    /\ \E f \in Filters : Begin("pluck", f, 0, pluck_from(FiltersState, f, 0))
    /\ UNCHANGED screen_bytes

\* The outcomes of the pass of filters_stack_update that starts at the label
\* retry in the state of the variables.
PassNow == Pass([FiltersState EXCEPT !.drops = flast.drops])

\* A pass that ends in goto retry: the default stage was added or removed,
\* or a realloc failed and a stage was dropped (lines 466-481, 506-523).
UpdateRetry ==
    /\ ~Idle
    /\ \E r \in PassNow :
         /\ ~r.done
         /\ FiltersBecome(r.st)
         /\ flast' = [flast EXCEPT !.drops = r.st.drops]
    /\ UNCHANGED <<screen_bytes, ndebug>>
    /\ UNCHANGED othersOfFilters

\* A pass that reaches the I/O buffers update and returns (lines 537-574).
UpdateDone ==
    /\ ~Idle
    /\ \E r \in PassNow :
         /\ r.done
         /\ FiltersBecome(Wire(r.st))
         /\ flast' = [flast EXCEPT !.drops = r.st.drops, !.rebuilt = TRUE]
    /\ UNCHANGED <<screen_bytes, ndebug>>
    /\ UNCHANGED othersOfFilters


----------------------------------------------------------------------------
(* One stage of the filters stack: filter_off, filter_scale, filter_stretch *)

\* Largest input width and height of the exhaustive part of the geometries.
MaxIn == 2
\* Largest output (screen) width and height of the exhaustive part.
MaxOut == 4
\* Largest configured scale factor of the exhaustive part.
MaxScale == 3

\* The variables no run of a stage changes.
othersOfStage == <<cbufVars, soundVars, filterVars, videoVars, stopped, evVars,
    comboVars, shotVars, kbVars>>

\* Width of unsigned int.  It is 32 bits in the source; the model evaluates
\* the same expressions modulo a narrower word, wide enough for every shift
\* by 10 of the geometries below, because the products must stay below 2^31.
UIntBits == 24

\* Arithmetic on unsigned int.
UInt(x) == x % (2 ^ UIntBits)

\* The smallest factor whose product with the 320 pixels of a line exceeds
\* the largest unsigned int.
WrapScale == ((2 ^ UIntBits) \div 320) + 1

\* Arithmetic on uint8_t, the type of the entries of h_table and v_table.
UInt8(x) == x % 256

\* screen.Bpp, the bytes per pixel SDL reports for the surface.
BppSet == {2, 3}

\* The entries of scale_mode[] and stretch_mode[].
ModeBpp == {1, 2, 3, 4}

\* static void filter_off(in, out), on the descriptor out: the first run
\* narrows the output to the input when it fits and marks it updated.  The
\* stages here are not safe, so in->buf and out->buf differ.
filter_off(in, out) ==
    LET height == IF in.height > out.height THEN out.height ELSE in.height IN
    IF out.updated THEN out
    ELSE [out EXCEPT !.width = IF in.width <= out.width THEN in.width ELSE @,
                     !.height = height,
                     !.updated = TRUE]

\* The result of a run that ends in the label failed.
Fallback(in, out, init) ==
    [out |-> filter_off(in, [out EXCEPT !.failed = TRUE]), ran |-> "off",
     init |-> init, trap |-> FALSE]

\* Lines 1115-1118: while ((n * scale) > limit) --scale;
RECURSIVE scale_search(_, _, _)
scale_search(n, scale, limit) ==
    IF UInt(n * scale) > limit THEN scale_search(n, UInt(scale - 1), limit)
    ELSE scale

\* The factor search leaving the configured factor as it is.
scale_search_keep(n, scale, limit) == scale

\* static void filter_scale(in, out); malloc_ok is the outcome of the malloc
\* at line 1142.
filter_scale(in, out, malloc_ok) ==
    IF out.failed
    THEN [out |-> filter_off(in, out), ran |-> "off", init |-> FALSE, trap |-> FALSE]
    ELSE IF out.updated
    THEN [out |-> out, ran |-> "scale", init |-> FALSE, trap |-> FALSE]
    ELSE LET x_scale == scale_search(in.width, scr.x_scale, out.width)
             y_scale == scale_search(in.height, scr.y_scale, out.height)
             width   == UInt(in.width * x_scale)
             height  == UInt(in.height * y_scale)
         IN  IF x_scale = 0 \/ y_scale = 0 THEN Fallback(in, out, TRUE)
             ELSE IF x_scale = 1 /\ y_scale = 1 THEN Fallback(in, out, TRUE)
             ELSE IF scr.Bpp \notin ModeBpp THEN Fallback(in, out, TRUE)
             ELSE IF ~malloc_ok THEN Fallback(in, out, TRUE)
             ELSE [out |-> [out EXCEPT !.width = width, !.height = height,
                                       !.data = [x_scale |-> x_scale,
                                                 y_scale |-> y_scale],
                                       !.updated = TRUE],
                   ran |-> "scale", init |-> TRUE, trap |-> FALSE]

\* Lines 1365-1369 and 1370-1374: the table of n entries after the loop over
\* the dst destination coordinates; each ++ is on a uint8_t.
repeat_table(n, dst, ratio) ==
    [s \in 0..(n - 1) |->
       UInt8(Cardinality({d \in 0..(dst - 1) : UInt(d * 1024) \div ratio = s}))]

\* The table with entries wide enough never to wrap.
repeat_table_wide(n, dst, ratio) ==
    [s \in 0..(n - 1) |->
       Cardinality({d \in 0..(dst - 1) : UInt(d * 1024) \div ratio = s})]

\* Lines 1332-1348: the output size when the aspect ratio must be kept.
aspect_fix(dst_w, dst_h, src_w, src_h) ==
    LET w == UInt(dst_h * src_w) \div src_h
        h == UInt(dst_w * src_h) \div src_w
    IN  IF w >= dst_w
        THEN [w |-> dst_w, h |-> IF h = 0 THEN 1 ELSE h]
        ELSE [w |-> IF w = 0 THEN 1 ELSE w, h |-> dst_h]

\* static void filter_stretch(in, out); calloc_ok is the outcome of the
\* calloc at line 1352.  A division by a zero ratio at line 1366 or 1371 is
\* undefined: the run is reported as trapped and the descriptor is left as
\* it was.
filter_stretch(in, out, calloc_ok) ==
    IF out.failed
    THEN [out |-> filter_off(in, out), ran |-> "off", init |-> FALSE, trap |-> FALSE]
    ELSE IF out.updated
    THEN [out |-> out, ran |-> "stretch", init |-> FALSE, trap |-> FALSE]
    ELSE IF in.height = 0 \/ in.width = 0 THEN Fallback(in, out, TRUE)
    ELSE IF in.pitch % scr.Bpp # 0 \/ out.pitch % scr.Bpp # 0
    THEN Fallback(in, out, TRUE)
    ELSE IF scr.Bpp \notin ModeBpp THEN Fallback(in, out, TRUE)
    ELSE LET d == IF dgen_aspect
                  THEN aspect_fix(out.width, out.height, in.width, in.height)
                  ELSE [w |-> out.width, h |-> out.height]
             h_ratio == UInt(d.w * 1024) \div in.width
             v_ratio == UInt(d.h * 1024) \div in.height
         IN  IF ~calloc_ok THEN Fallback(in, out, TRUE)
             ELSE IF (d.w # 0 /\ h_ratio = 0) \/ (d.h # 0 /\ v_ratio = 0)
             THEN [out |-> out, ran |-> "none", init |-> TRUE, trap |-> TRUE]
             ELSE [out |-> [out EXCEPT
                              !.width = d.w, !.height = d.h,
                              !.data = [h_table |-> repeat_table(in.width, d.w, h_ratio),
                                        v_table |-> repeat_table(in.height, d.h, v_ratio)],
                              !.updated = TRUE],
                   ran |-> "stretch", init |-> TRUE, trap |-> FALSE]

\* The descriptor filters_stack_update writes for the output of the stage:
\* the memset of line 464, then the geometry of the screen (lines 433-441
\* and 553-559).
RewiredOut ==
    [width |-> scr.width, height |-> scr.height, pitch |-> scr.pitch,
     data |-> "NULL", updated |-> FALSE, failed |-> FALSE]

NoRun == [op |-> "none", in |-> <<>>, out |-> <<>>, ran |-> "none",
          init |-> FALSE, trap |-> FALSE]

\* SDL pads the lines of a surface to a multiple of four bytes.
Pad4(n) == ((n + 3) \div 4) * 4

\* Geometries of a scale stage: every small one, and the 320x224 frame on a
\* 320x224 or 640x448 screen with a horizontal factor given on the command
\* line (-X, any positive int) whose product with 320 exceeds UINT_MAX.
ScaleInputs ==
    [iw : 0..MaxIn, ih : 0..MaxIn, ow : 0..MaxOut, oh : 0..MaxOut,
     xs : 0..MaxScale, ys : 0..MaxScale]
    \cup [iw : {320}, ih : {224}, ow : {320, 640}, oh : {224, 448},
          xs : {2, WrapScale}, ys : {1, 2}]

\* Geometries of a stretch stage: every small one, the 320x224 frame on a
\* 640x480 screen, and single lines stretched or shrunk by large ratios.
StretchInputs ==
    [iw : 0..MaxIn, ih : 0..MaxIn, ow : 0..MaxOut, oh : 0..MaxOut]
    \cup [iw : {320}, ih : {224}, ow : {640}, oh : {480}]
    \cup [iw : {1}, ih : {1}, ow : {255, 256, 257}, oh : {1}]
    \cup [iw : {1025}, ih : {1}, ow : {1, 1025, 1026}, oh : {1}]

\* A stage wired by filters_stack_update and not run yet.
StageStart ==
    /\ sfilter \in {"scale", "stretch"}
    /\ \E Bpp \in BppSet :
         IF sfilter = "scale"
         THEN \E g \in ScaleInputs :
                /\ fin = [width |-> g.iw, height |-> g.ih, pitch |-> g.iw * Bpp]
                /\ scr = [width |-> g.ow, height |-> g.oh, pitch |-> g.ow * Bpp,
                          Bpp |-> Bpp, x_scale |-> g.xs, y_scale |-> g.ys]
                /\ dgen_aspect = FALSE
         ELSE \E g \in StretchInputs :
                /\ fin = [width |-> g.iw, height |-> g.ih, pitch |-> g.iw * Bpp]
                /\ \E pitch \in {g.ow * Bpp, Pad4(g.ow * Bpp)} :
                     scr = [width |-> g.ow, height |-> g.oh, pitch |-> pitch,
                            Bpp |-> Bpp, x_scale |-> 1, y_scale |-> 1]
                /\ dgen_aspect \in BOOLEAN
    /\ fout = RewiredOut
    /\ slast = NoRun

\* The stage in the specifications that do not exercise it.
StageRest ==
    /\ sfilter = "scale"
    /\ fin = [width |-> 0, height |-> 0, pitch |-> 0]
    /\ scr = [width |-> 0, height |-> 0, pitch |-> 0, Bpp |-> 0,
              x_scale |-> 0, y_scale |-> 0]
    /\ dgen_aspect = FALSE
    /\ fout = RewiredOut
    /\ slast = NoRun

\* What a run of the stage leaves in the variables.
StageRan(op, r) ==
    /\ fout' = r.out
    /\ slast' = [op |-> op, in |-> fin, out |-> fout, ran |-> r.ran,
                 init |-> r.init, trap |-> r.trap]
    /\ UNCHANGED <<fin, scr, dgen_aspect, sfilter>>
    /\ UNCHANGED othersOfStage

\* One frame through a scale stage: f->func(fd, fd + 1) of pd_graphics_update.
FilterScale ==
    /\ sfilter = "scale"
    /\ ~slast.trap
    /\ \E malloc_ok \in BOOLEAN :
         StageRan("scale", filter_scale(fin, fout, malloc_ok))

\* One frame through a stretch stage.
FilterStretch ==
    /\ sfilter = "stretch"
    /\ ~slast.trap
    /\ \E calloc_ok \in BOOLEAN :
         StageRan("stretch", filter_stretch(fin, fout, calloc_ok))

\* filters_stack_update on the stack the stage is in: the descriptor is
\* cleared and wired again.
StageRewire ==
    /\ ~slast.trap
    /\ fout' = RewiredOut
    /\ slast' = [NoRun EXCEPT !.op = "rebuild", !.in = fin, !.out = fout]
    /\ UNCHANGED <<fin, scr, dgen_aspect, sfilter>>
    /\ UNCHANGED othersOfStage


----------------------------------------------------------------------------
(* Frames through the stack: pd_graphics_update *)

\* The variables pd_graphics_update leaves alone.
othersOfFrames == <<cbufVars, soundVars, videoVars, stopped, evVars,
    comboVars, shotVars, kbVars>>

\* Width, height and pitch of descriptor d: what the rebuild copied from
\* in_fd (the emulated frame), from out_fd or the screen (lines 433-441 and
\* 554-557), or what a stage has stored since.
Geom(d) ==
    IF d.geom = "run" THEN [width |-> d.width, height |-> d.height, pitch |-> d.pitch]
    ELSE IF d.geom = "video" THEN fin
    ELSE IF d.geom = "screen"
    THEN [width |-> scr.width, height |-> scr.height, pitch |-> scr.pitch]
    ELSE [width |-> 0, height |-> 0, pitch |-> 0]

\* Descriptor d as filter_scale and filter_stretch read it; priv is what
\* data points to.
NumFd(d) ==
    LET g == Geom(d) IN
    [width |-> g.width, height |-> g.height, pitch |-> g.pitch,
     data |-> IF d.geom = "run" THEN d.priv ELSE "NULL",
     updated |-> d.updated, failed |-> d.failed]

\* The stage run as if its output descriptor were never marked failed.
StageFunc_retry(f, in, out, ok) ==
    IF f = "scale" THEN filter_scale(in, [out EXCEPT !.failed = FALSE], ok)
    ELSE filter_stretch(in, [out EXCEPT !.failed = FALSE], ok)

\* f->func(fd, fd + 1) for a stage of filter f; ok is the outcome of the
\* allocation the stage makes when it initialises.
StageFunc(f, in, out, ok) ==
    IF f = "scale" THEN filter_scale(in, out, ok)
    ELSE filter_stretch(in, out, ok)

\* Descriptor d after a stage returned out in it.
StoreFd(d, out) ==
    [buf |-> d.buf, geom |-> "run",
     data |-> IF out.updated /\ ~out.failed THEN "live" ELSE "NULL",
     updated |-> out.updated, failed |-> out.failed,
     width |-> out.width, height |-> out.height, pitch |-> out.pitch,
     priv |-> out.data]

\* Lines 1701-1714: the stages from index i on are run in order, each on
\* the descriptors the stages below it left; oks is the set of stages whose
\* allocation succeeds.  A trapped stage ends the frame.
RECURSIVE RunStages(_, _, _, _)
RunStages(fd, i, oks, log) ==
    IF i >= filters_stack_size THEN [fd |-> fd, log |-> log]
    ELSE LET f   == filters_stack[i]
             out == NumFd(fd[i + 1])
             r   == StageFunc(f, NumFd(fd[i]), out, i \in oks)
             e   == [filter |-> f, pre_failed |-> out.failed,
                     post_failed |-> r.out.failed, ran |-> r.ran,
                     init |-> r.init, trap |-> r.trap]
         IN  IF r.trap THEN [fd |-> fd, log |-> Append(log, e)]
             ELSE RunStages([fd EXCEPT ![i + 1] = StoreFd(@, r.out)], i + 1, oks,
                            Append(log, e))

\* The video and screen geometries of a run: a small frame on a screen
\* smaller than it with no scaling configured, and on a screen large enough
\* for the frame scaled by two.
FrameInputs ==
    {[iw |-> MaxIn, ih |-> 1, ow |-> 1, oh |-> 1, xs |-> 1, ys |-> 1],
     [iw |-> MaxIn, ih |-> 1, ow |-> MaxOut, oh |-> 2, xs |-> 2, ys |-> 2]}

\* The geometry screen_init installs, fixed for the run: the surface
\* SDL_SetVideoMode returns, the factors of lines 1480-1494.
FramesStart ==
    /\ \E g \in FrameInputs, Bpp \in BppSet :
         /\ fin = [width |-> g.iw, height |-> g.ih, pitch |-> g.iw * Bpp]
         /\ scr = [width |-> g.ow, height |-> g.oh, pitch |-> Pad4(g.ow * Bpp),
                   Bpp |-> Bpp, x_scale |-> g.xs, y_scale |-> g.ys]
    /\ dgen_aspect \in BOOLEAN
    /\ sfilter = "scale"
    /\ fout = RewiredOut
    /\ slast = NoRun

\* void pd_graphics_update(bool update): one frame through every stage.  It
\* is called once the screen is initialised, so the stack is not empty.
GraphicsUpdate ==
    /\ filters_stack_size > 0
    /\ \A k \in 0..(filters_stack_size - 1) : IsFilter(filters_stack[k])
    /\ \E oks \in SUBSET (0..(filters_stack_size - 1)) :
         LET r == RunStages(filters_stack_data, 0, oks, <<>>)
         IN  /\ filters_stack_data' = r.fd
             /\ flast' = [op |-> "frame", f |-> "NULL", index |-> 0, pre |-> <<>>,
                          pre_default |-> FALSE, rebuilt |-> TRUE, drops |-> 0,
                          size |-> filters_stack_size, log |-> r.log]
    /\ UNCHANGED <<filters_stack, filters_stack_size, filters_stack_default,
                   filters_stack_data_buf, screen_bytes, filters_err, ndebug>>
    /\ UNCHANGED <<fin, fout, scr, dgen_aspect, sfilter, slast>>
    /\ UNCHANGED othersOfFrames


----------------------------------------------------------------------------
(* Graphics: screen_init, pd_graphics_init, pd_graphics_reinit *)

\* The variables the graphics calls leave alone.
othersOfVideo == <<cbufVars, soundVars, fout, dgen_aspect, sfilter, slast, evVars,
    comboVars, shotVars, kbVars>>

\* static struct video: width is always 320, NTSC height and rate by default.
VideoStart == [width |-> 320, height |-> 224, hz |-> 60, is_pal |-> 0]

\* The frame rates asked for: dgen_hz is any int.
HzInputs == {0, 1, 1000, 1001}

\* The size of the surface SDL_SetVideoMode returns for a request of 0x0:
\* the current mode of the display.
DesktopSize == [w |-> 320, h |-> 240]

NoMdscr == [data |-> "NULL", w |-> 0, h |-> 0, bpp |-> 0, pitch |-> 0]

NoGraphicsCall == [fn |-> "none", hz |-> 0, pal |-> 0, ret |-> 0, pre |-> <<>>]

\* The state the graphics calls may change.
GraphicsState ==
    <<video, scr, gfx.once, gfx.mdscr, gfx.sdl, stopped, fin,
      filters_stack, filters_stack_size, filters_stack_default,
      filters_stack_data_buf, filters_stack_data, screen_bytes>>

\* The static initialisers; the rc variables dgen_x_scale and dgen_y_scale are
\* negative (pick the factors from the surface) or set.
VideoInit ==
    /\ video = VideoStart
    /\ \E s \in {-1, 2} :
         gfx = [once |-> TRUE, mdscr |-> NoMdscr, sdl |-> FALSE,
                dgen_x_scale |-> s, dgen_y_scale |-> s, pc |-> "idle"]
    /\ glast = NoGraphicsCall
    /\ stopped = 0

\* The graphics in the specifications that do not exercise them.
VideoRest ==
    /\ video = VideoStart
    /\ gfx = [once |-> TRUE, mdscr |-> NoMdscr, sdl |-> FALSE,
              dgen_x_scale |-> -1, dgen_y_scale |-> -1, pc |-> "idle"]
    /\ glast = NoGraphicsCall
    /\ stopped = 0

\* Lines 1577-1586 with the two heights exchanged.
SetVideo_swapped(hz, want_pal) ==
    [video EXCEPT !.hz = hz,
                  !.is_pal = IF want_pal # 0 THEN 1 ELSE 0,
                  !.height = IF want_pal # 0 THEN 224 ELSE 240]

\* Lines 1576-1586 and 1649-1659: video.hz = hz; PAL or NTSC.
SetVideo(hz, want_pal) ==
    [video EXCEPT !.hz = hz,
                  !.is_pal = IF want_pal # 0 THEN 1 ELSE 0,
                  !.height = IF want_pal # 0 THEN 240 ELSE 224]

\* The test of lines 1571 and 1644 letting a rate of 0 through.
InvalidHz_zero(hz) == hz < 0 \/ hz > 1000

\* Lines 1571 and 1644: (hz <= 0) || (hz > 1000)
InvalidHz(hz) == hz <= 0 \/ hz > 1000

\* Lines 1435-1521: the screen after SDL_SetVideoMode returned a surface of
\* Bpp bytes per pixel for the size asked; v is video.
NewScreen(v, Bpp) ==
    LET req == IF gfx.once THEN [w |-> v.width, h |-> v.height]
               ELSE [w |-> scr.width, h |-> scr.height]
        sz  == IF req.w = 0 \/ req.h = 0 THEN DesktopSize ELSE req
        xs0 == IF gfx.dgen_x_scale >= 0 THEN gfx.dgen_x_scale
               ELSE sz.w \div v.width
        ys0 == IF gfx.dgen_y_scale >= 0 THEN gfx.dgen_y_scale
               ELSE sz.h \div v.height
        xs  == IF dgen_aspect /\ xs0 >= ys0 THEN ys0 ELSE xs0
        ys  == IF dgen_aspect /\ xs0 < ys0 THEN xs0 ELSE ys0
    IN  [width |-> sz.w, height |-> sz.h, pitch |-> Pad4(sz.w * Bpp),
         Bpp |-> Bpp, x_scale |-> xs, y_scale |-> ys]

\* Lines 1524-1539: mdscr has to be allocated again for video v and screen s.
MdscrStale(v, s) ==
    \/ gfx.mdscr.data = "NULL"
    \/ gfx.mdscr.bpp # s.Bpp * 8
    \/ gfx.mdscr.w # v.width + 16
    \/ gfx.mdscr.h # v.height + 16

\* Lines 1528-1533.
NewMdscr(v, s) ==
    [data |-> "live", w |-> v.width + 16, h |-> v.height + 16,
     bpp |-> s.Bpp * 8, pitch |-> (v.width + 16) * s.Bpp]

\* The record of a call; the state before it is kept for the calls that
\* are refused.
GraphicsCall(fn, hz, want_pal, ret) ==
    [fn |-> fn, hz |-> hz, pal |-> want_pal, ret |-> ret,
     pre |-> IF InvalidHz(hz) THEN GraphicsState ELSE <<>>]

\* The call returns ret with the screen and the filters as they are.
GraphicsReturn(fn, hz, want_pal, ret) ==
    /\ glast' = GraphicsCall(fn, hz, want_pal, ret)
    /\ UNCHANGED <<scr, fin, filterVars>>

\* static int screen_init() up to the rehash of the filters (lines 1433-
\* 1554), inside the call fn: SDL_SetVideoMode may fail (return -1), the
\* calloc of mdscr may fail (return -2).
ScreenInitIn(fn, hz, want_pal, v) ==
    /\ stopped' = 1
    /\ \/ /\ gfx' = [gfx EXCEPT !.once = FALSE, !.sdl = TRUE]
          /\ GraphicsReturn(fn, hz, want_pal, 0)
       \/ \E Bpp \in BppSet :
            LET s == NewScreen(v, Bpp) IN
            /\ scr' = s
            /\ \/ /\ MdscrStale(v, s)
                  /\ gfx' = [gfx EXCEPT !.once = FALSE, !.sdl = TRUE,
                                        !.mdscr = NoMdscr]
                  /\ glast' = GraphicsCall(fn, hz, want_pal, 0)
                  /\ UNCHANGED <<fin, filterVars>>
               \/ LET md == IF MdscrStale(v, s) THEN NewMdscr(v, s) ELSE gfx.mdscr
                      bytes == IF s.pitch * s.height = 0 THEN 0 ELSE 1
                  IN  /\ gfx' = [gfx EXCEPT !.once = FALSE, !.sdl = TRUE,
                                            !.mdscr = md, !.pc = "update"]
                      /\ fin' = [width |-> v.width, height |-> v.height,
                                 pitch |-> md.pitch]
                      /\ screen_bytes' = bytes
                      /\ \E st \in filters_stack_update(
                                     [FiltersState EXCEPT !.bytes = bytes]) :
                           FiltersBecome(st) /\ Called("screen_init", "NULL", 0, st)
                      /\ UNCHANGED ndebug
                      /\ glast' = GraphicsCall(fn, hz, want_pal, 1)

\* int pd_graphics_init(int want_sound, int want_pal, int hz), up to the
\* end of screen_init's rehash; SDL_Init may fail.
PdGraphicsInit ==
    /\ gfx.pc = "idle"
    /\ ~gfx.sdl
    /\ \E hz \in HzInputs, want_pal \in {0, 1} :
         IF InvalidHz(hz)
         THEN /\ GraphicsReturn("init", hz, want_pal, 0)
              /\ UNCHANGED <<video, gfx, stopped>>
         ELSE /\ video' = SetVideo(hz, want_pal)
              /\ \/ /\ GraphicsReturn("init", hz, want_pal, 0)
                    /\ UNCHANGED <<gfx, stopped>>
                 \/ ScreenInitIn("init", hz, want_pal, SetVideo(hz, want_pal))
    /\ UNCHANGED othersOfVideo

\* int pd_graphics_reinit(int, int want_pal, int hz), up to the end of
\* screen_init's rehash.
PdGraphicsReinit ==
    /\ gfx.pc = "idle"
    /\ gfx.sdl
    /\ \E hz \in HzInputs, want_pal \in {0, 1} :
         IF InvalidHz(hz)
         THEN /\ GraphicsReturn("reinit", hz, want_pal, 0)
              /\ UNCHANGED <<video, gfx, stopped>>
         ELSE /\ video' = SetVideo(hz, want_pal)
              /\ ScreenInitIn("reinit", hz, want_pal, SetVideo(hz, want_pal))
    /\ UNCHANGED othersOfVideo

\* Line 1556: pd_graphics_update(true) ends screen_init, and the call
\* returns 1.
PdGraphics_update ==
    /\ gfx.pc = "update"
    /\ \E oks \in SUBSET (0..(filters_stack_size - 1)) :
         filters_stack_data' = RunStages(filters_stack_data, 0, oks, <<>>).fd
    /\ gfx' = [gfx EXCEPT !.pc = "idle"]
    /\ UNCHANGED <<filters_stack, filters_stack_size, filters_stack_default,
                   filters_stack_data_buf, screen_bytes, filters_err, ndebug, flast>>
    /\ UNCHANGED <<video, glast, stopped, scr, fin>>
    /\ UNCHANGED othersOfVideo


----------------------------------------------------------------------------
(* Events: freeze, stop_events, restart_events, kb_input, manage_game_genie, *)
(* manage_calibration, pd_handle_events and the loop of main()               *)

\* The variables the event handling leaves alone.
othersOfEvents == <<cbufVars, soundVars, filterVars, stageVars, videoVars, comboVars, shotVars, kbVars>>

\* Largest value of pd_freeze_ref explored.
MaxRef == 3
\* sizeof(buf) of manage_game_genie, 12 in the source.
BufSize == 3
\* elemof(calibration_steps), the terminating entry included; 13 in the source.
NumSteps == 2

SDLK_BACKSPACE == 8
SDLK_RETURN == 13
SDLK_ESCAPE == 27
SDLK_a == 97
SDLK_b == 98
SDLK_DELETE == 127
SDLK_KP_ENTER == 271
SDLK_RIGHT == 275
SDLK_LEFT == 276
\* The modifier bits or'ed into a keysym; KEYSYM_MOD_MASK is every bit from
\* KEYSYM_MOD_META up.
KEYSYM_MOD_CTRL == 268435456
KEYSYM_MOD_META == 134217728

\* control[] in the order of the table: one pad button of each controller, and
\* the DGen controls whose handlers differ: quit, one that only acts and is
\* above stop in the table (reset), stop, game genie, and one that only acts
\* and is below them (volume).
Controls == <<"pad1_a", "pad2_a", "dgen_quit", "dgen_reset", "dgen_stop",
              "dgen_game_genie", "dgen_volume_inc">>

CtlSet == {Controls[i] : i \in 1..Len(Controls)}

\* The rc variables with a key binding: those of the controls and dgen_prompt,
\* which has no entry in control[].
Binders == CtlSet \cup {"dgen_prompt"}

\* control[].release is not NULL: the pads.
HasRelease(c) == c \in {"pad1_a", "pad2_a"}

\* The keys that come up.
KeyInputs == {SDLK_a, SDLK_RETURN, SDLK_ESCAPE, SDLK_LEFT, SDLK_RIGHT,
              SDLK_BACKSPACE, SDLK_DELETE}

\* The keys that go down: the key, event.key.keysym.unicode (0, or the
\* character of a printable key) and whether KMOD_CTRL is set.
KeyDownInputs ==
    {<<sym, 0, FALSE>> : sym \in KeyInputs}
    \cup {<<SDLK_a, SDLK_a, FALSE>>, <<SDLK_a, 0, TRUE>>, <<SDLK_RETURN, 0, TRUE>>}

\* The default key bindings are distinct keys; pad2_a and dgen_volume_inc
\* are on keys that are never pressed.
DefaultKeys ==
    [b \in Binders |->
        CASE b = "pad1_a" -> SDLK_a
          [] b = "pad2_a" -> SDLK_b
          [] b = "dgen_quit" -> SDLK_ESCAPE
          [] b = "dgen_reset" -> SDLK_BACKSPACE
          [] b = "dgen_stop" -> SDLK_RETURN
          [] b = "dgen_game_genie" -> SDLK_LEFT
          [] b = "dgen_volume_inc" -> SDLK_KP_ENTER
          [] OTHER -> SDLK_RIGHT]

NoMouse == [c \in CtlSet |-> "none"]

\* The bindings the rc file leaves: the defaults, the defaults with one
\* binding moved onto the key of another or given the CTRL modifier, the
\* defaults with the volume on the key of stop, and the defaults with a
\* mouse motion bound to one control.
RcInputs ==
    {[k |-> DefaultKeys, m |-> NoMouse]}
    \cup {[k |-> [DefaultKeys EXCEPT ![x] = DefaultKeys[y]], m |-> NoMouse] :
             x \in {"dgen_quit", "dgen_stop", "dgen_game_genie", "dgen_prompt"},
             y \in Binders \ {"pad2_a", "dgen_volume_inc"}}
    \cup {[k |-> [DefaultKeys EXCEPT !["dgen_volume_inc"] = DefaultKeys["dgen_stop"]],
            m |-> NoMouse]}
    \cup {[k |-> [DefaultKeys EXCEPT ![x] = @ + KEYSYM_MOD_CTRL], m |-> NoMouse] :
             x \in {"pad1_a", "dgen_stop"}}
    \cup {[k |-> DefaultKeys, m |-> [NoMouse EXCEPT !["pad1_a"] = "l"]]}

\* The entries of calibration_steps[]: the last one is the terminator, whose
\* ids are CTL_.
StepIds(i) == IF i = NumSteps THEN <<"CTL_", "CTL_">> ELSE <<"pad1_a", "pad2_a">>

NoStep == [once |-> FALSE, twice |-> FALSE, type |-> "RCB_NUM", code |-> -1]

NoInput == [buf |-> <<>>, pos |-> 0, size |-> BufSize, overrun |-> FALSE]

NoEvent ==
    [op |-> "none", ksym |-> 0, pre |-> "STARTED", pre_cal |-> FALSE,
     pre_ref |-> 0, pre_freeze |-> FALSE, pre_buf |-> <<>>, pre_pos |-> 0,
     pre_ctlr |-> 0, pre_steps |-> <<>>, pre_open |-> 0, pre_once |-> FALSE,
     calls |-> <<>>, patch |-> <<>>,
     commits |-> <<>>, cmd |-> "none", args |-> <<>>, ret |-> 1,
     one_frame |-> FALSE, main |-> <<>>]

\* The static initialisers of lines 236-258, 1388-1389, 2492-2600 and 2742,
\* and main() at the top of its loop, with the bindings one of rcs and
\* dgen_sound one of sounds. left is the number of events SDL holds for the
\* running call of pd_handle_events, or -1 when events keep coming.
EventsBegin(rcs, left, sounds) ==
    /\ events = "STARTED"
    /\ pd_freeze = FALSE
    /\ pd_freeze_ref = 0
    /\ calibrating = FALSE
    /\ calibrating_controller = 0
    /\ calibration_steps = [i \in 1..NumSteps |-> NoStep]
    /\ control = [c \in CtlSet |-> [pressed |-> FALSE, coord |-> FALSE]]
    /\ rc \in rcs
    /\ input = NoInput
    /\ loop \in [pc : {"frame"}, failed : {"none"}, mmr : {FALSE},
                 left : {left}, dgen_sound : sounds]
    /\ elast = NoEvent

EventsStart == EventsBegin(RcInputs, -1, {TRUE})

\* The events in the specifications that do not exercise them.
EventsRest == EventsBegin({[k |-> DefaultKeys, m |-> NoMouse]}, -1, {TRUE})

\* The bindings of the specification of the loop of main(): the default keys,
\* and the mouse moving left on a pad button.
LoopRc ==
    {[k |-> DefaultKeys, m |-> [NoMouse EXCEPT !["pad1_a"] = "l"]]}

\* The most events SDL holds when pd_handle_events is called.
MaxQueue == 2

LoopStart == EventsBegin(LoopRc, 0, BOOLEAN)

\* The state a handler works on, with what it has called and returned so far.
Cur ==
    [events |-> events, pd_freeze |-> pd_freeze, pd_freeze_ref |-> pd_freeze_ref,
     calibrating |-> calibrating,
     calibrating_controller |-> calibrating_controller,
     calibration_steps |-> calibration_steps, control |-> control, rc |-> rc,
     input |-> input, stopped |-> stopped, failed |-> loop.failed,
     mmr |-> loop.mmr, calls |-> <<>>, patch |-> <<>>, commits |-> <<>>,
     cmd |-> "none", args |-> <<>>, ret |-> 1]

\* assert(cond): the first assertion that does not hold is recorded; without
\* NDEBUG it aborts the program.
Check(s, cond, name) ==
    IF cond \/ s.failed # "none" THEN s ELSE [s EXCEPT !.failed = name]

Dead(s) == s.failed # "none" /\ ~ndebug

\* freeze() with a decrement that clears pd_freeze at any count.
freeze_flag(s, toggle) ==
    IF Dead(s) THEN s
    ELSE IF toggle
    THEN LET a == IF s.pd_freeze_ref = 0
                  THEN Check(s, s.pd_freeze = FALSE, "freeze") ELSE s
         IN IF Dead(a) THEN a
            ELSE [a EXCEPT !.pd_freeze = IF s.pd_freeze_ref = 0 THEN TRUE ELSE @,
                           !.pd_freeze_ref = UInt(@ + 1)]
    ELSE IF s.pd_freeze_ref # 0
    THEN LET a == s
         IN [a EXCEPT !.pd_freeze_ref = @ - 1, !.pd_freeze = FALSE]
    ELSE Check(s, s.pd_freeze = FALSE, "freeze")

\* freeze(), lines 260-279.
freeze(s, toggle) ==
    IF Dead(s) THEN s
    ELSE IF toggle
    THEN LET a == IF s.pd_freeze_ref = 0
                  THEN Check(s, s.pd_freeze = FALSE, "freeze") ELSE s
         IN IF Dead(a) THEN a
            ELSE [a EXCEPT !.pd_freeze = IF s.pd_freeze_ref = 0 THEN TRUE ELSE @,
                           !.pd_freeze_ref = UInt(@ + 1)]
    ELSE IF s.pd_freeze_ref # 0
    THEN LET a == Check(s, s.pd_freeze = TRUE, "freeze")
         IN IF Dead(a) THEN a
            ELSE [a EXCEPT !.pd_freeze_ref = @ - 1,
                           !.pd_freeze = IF s.pd_freeze_ref = 1 THEN FALSE ELSE @]
    ELSE Check(s, s.pd_freeze = FALSE, "freeze")

CtlCalled(s, c, h) == [s EXCEPT !.calls = Append(@, <<c, h>>)]

\* ctl_pad1_release / ctl_pad2_release: they return 1.
ctl_release(s, c) == [CtlCalled(s, c, "release") EXCEPT !.ret = 1]

\* The loop of lines 2836-2844 from entry i of control[] on, then 2845-2848.
RECURSIVE ReleaseControls(_, _)
ReleaseControls(s, i) ==
    IF i > Len(Controls) THEN [s EXCEPT !.ret = 0]
    ELSE LET c == Controls[i]
             s1 == [s EXCEPT !.control[c] = [pressed |-> FALSE, coord |-> FALSE]]
             s2 == IF HasRelease(c) THEN ctl_release(s1, c) ELSE s1
         IN IF ~s.control[c].pressed THEN ReleaseControls(s, i + 1)
            ELSE IF HasRelease(c) /\ s2.ret = 0 THEN [s2 EXCEPT !.ret = -1]
            ELSE ReleaseControls(s2, i + 1)

\* stop_events(), lines 2828-2849.
stop_events(s, status) ==
    LET s1 == freeze([s EXCEPT !.stopped = 1], TRUE)
    IN IF Dead(s1) THEN s1
       ELSE ReleaseControls([s1 EXCEPT !.events = status], 1)

\* restart_events(), lines 2851-2858.
restart_events(s) ==
    LET s1 == freeze([s EXCEPT !.stopped = 1], FALSE)
    IN IF Dead(s1) THEN s1 ELSE [s1 EXCEPT !.events = "STARTED"]

\* control[].press with the handlers of dgen_stop and dgen_game_genie exchanged.
ctl_press_swapped(s, c) ==
    LET s0 == CtlCalled(s, c, "press")
        st == stop_events(s0, "STOPPED")
        gg == stop_events(s0, "GAME_GENIE")
    IN CASE c = "dgen_quit" -> [s0 EXCEPT !.ret = 0]
         [] c = "dgen_stop" -> [gg EXCEPT !.ret = IF gg.ret # 0 THEN 0 ELSE 1]
         [] c = "dgen_game_genie" -> [st EXCEPT !.ret = IF st.ret # 0 THEN 0 ELSE 1]
         [] OTHER -> [s0 EXCEPT !.ret = 1]

\* control[].press: ctl_pad1, ctl_pad2 and ctl_dgen_reset return 1,
\* ctl_dgen_quit returns 0, ctl_dgen_stop and ctl_dgen_game_genie stop the
\* events.
ctl_press(s, c) ==
    LET s0 == CtlCalled(s, c, "press")
        st == stop_events(s0, "STOPPED")
        gg == stop_events(s0, "GAME_GENIE")
    IN CASE c = "dgen_quit" -> [s0 EXCEPT !.ret = 0]
         [] c = "dgen_stop" -> [st EXCEPT !.ret = IF st.ret # 0 THEN 0 ELSE 1]
         [] c = "dgen_game_genie" -> [gg EXCEPT !.ret = IF gg.ret # 0 THEN 0 ELSE 1]
         [] OTHER -> [s0 EXCEPT !.ret = 1]

\* isprint((char)ksym_uni) in the C locale.
IsPrint(uni) == (uni % 256) >= 32 /\ (uni % 256) <= 126

\* b without its element i.
DropAt(b, i) == SubSeq(b, 1, i - 1) \o SubSeq(b, i + 1, Len(b))

\* kb_input(), lines 1925-2014, for the keys of KeyInputs: buf is the string
\* up to its terminator, and overrun records the memmove of lines 1951 and
\* 1963, which moves size - pos + 1 bytes from buf + pos + 1.
kb_input(inp, ksym, uni) ==
    LET same(res) == [input |-> inp, res |-> res]
        sym == ksym % KEYSYM_MOD_META
    IN IF (ksym \div KEYSYM_MOD_CTRL) % 2 = 1 THEN same("IGNORED")
       ELSE IF IsPrint(uni)
       THEN IF inp.pos >= inp.size - 1 THEN same("CONSUMED")
            ELSE [input |-> [inp EXCEPT
                               !.buf = IF inp.pos = Len(@)
                                       THEN Append(@, uni % 256)
                                       ELSE [@ EXCEPT ![inp.pos + 1] = uni % 256],
                               !.pos = @ + 1],
                  res |-> "CONSUMED"]
       ELSE IF ksym = SDLK_DELETE
       THEN IF inp.pos = Len(inp.buf) THEN same("CONSUMED")
            ELSE [input |-> [inp EXCEPT !.buf = DropAt(@, inp.pos + 1),
                                        !.overrun = TRUE],
                  res |-> "CONSUMED"]
       ELSE IF ksym = SDLK_BACKSPACE
       THEN IF inp.pos = 0 THEN same("CONSUMED")
            ELSE [input |-> [inp EXCEPT !.buf = DropAt(@, inp.pos),
                                        !.pos = @ - 1,
                                        !.overrun = TRUE],
                  res |-> "CONSUMED"]
       ELSE IF ksym = SDLK_LEFT
       THEN [input |-> [inp EXCEPT !.pos = IF @ # 0 THEN @ - 1 ELSE @],
             res |-> "CONSUMED"]
       ELSE IF ksym = SDLK_RIGHT
       THEN [input |-> [inp EXCEPT !.pos = IF @ # Len(inp.buf) THEN @ + 1 ELSE @],
             res |-> "CONSUMED"]
       ELSE IF ksym = SDLK_RETURN \/ ksym = SDLK_KP_ENTER
       THEN IF inp.pos = 0 THEN same("ABORTED") ELSE same("ENTERED")
       ELSE IF ksym = SDLK_ESCAPE THEN same("ABORTED")
       ELSE same("IGNORED")

\* manage_game_genie(), lines 2740-2766.
manage_game_genie(s, ksym, uni) ==
    LET k == kb_input(s.input, ksym, uni)
    IN IF k.res = "ENTERED"
       THEN [s EXCEPT !.patch = Append(@, k.input.buf),
                      !.input = [NoInput EXCEPT !.overrun = k.input.overrun],
                      !.ret = 1]
       ELSE [s EXCEPT !.input = k.input, !.ret = 0]

\* The loop of lines 2618-2623: the first step from i on that is not
\* confirmed twice, or elemof(calibration_steps).
RECURSIVE FirstOpen(_, _)
FirstOpen(steps, i) ==
    IF i > NumSteps THEN i
    ELSE IF steps[i].once /\ steps[i].twice THEN FirstOpen(steps, i + 1)
    ELSE i

\* The loop of lines 2664-2675 from step i on: the captured codes become the
\* bindings of the controller; CTL_ is not below elemof(control).
RECURSIVE CommitSteps(_, _)
CommitSteps(s, i) ==
    IF i > NumSteps THEN s
    ELSE LET id == StepIds(i)[s.calibrating_controller + 1]
             type == s.calibration_steps[i].type
             code == s.calibration_steps[i].code
             a == Check(s, id # "CTL_", "manage_calibration")
             b == IF id = "CTL_" \/ type = "RCB_NUM" THEN a
                  ELSE IF type = "RCBK"
                  THEN [a EXCEPT !.rc.k[id] = code,
                                 !.commits = Append(@, <<id, code>>)]
                  ELSE IF type = "RCBM"
                  THEN [a EXCEPT !.rc.m[id] = code,
                                 !.commits = Append(@, <<id, code>>)]
                  ELSE a
         IN IF Dead(a) THEN a ELSE CommitSteps(b, i + 1)

\* The label ask of manage_calibration, lines 2655-2680, reached with step
\* (counted from 1 here).
AskStep(s, step) ==
    IF step = NumSteps + 1 /\ s.calibration_steps[NumSteps].code # -1
    THEN CommitSteps(s, 1)
    ELSE s

\* manage_calibration() with a first input that confirms the step twice.
manage_calibration_single(s, type, code) ==
    LET a == Check(s, s.calibrating_controller < 2, "manage_calibration")
        fz == freeze(a, TRUE)
        step == FirstOpen(a.calibration_steps, 1)
        un == freeze([a EXCEPT !.calibration_steps = [i \in 1..NumSteps |-> NoStep]],
                     FALSE)
        b == IF step <= NumSteps /\ ~a.calibration_steps[step].once
             THEN LET a1 == Check(a, ~a.calibration_steps[step].twice,
                                  "manage_calibration")
                  IN IF Dead(a1) THEN a1
                     ELSE [a1 EXCEPT !.calibration_steps[step] =
                             [once |-> TRUE, twice |-> TRUE,
                              type |-> type, code |-> code]]
             ELSE a
    IN IF Dead(a) THEN a
       ELSE IF ~a.calibrating
       THEN IF Dead(fz) THEN fz
            ELSE AskStep([fz EXCEPT !.calibrating = TRUE], 1)
       ELSE IF step = NumSteps + 1
       THEN IF Dead(un) THEN un ELSE [un EXCEPT !.calibrating = FALSE]
       ELSE IF Dead(b) THEN b
       ELSE IF ~(b.calibration_steps[step].once /\ b.calibration_steps[step].twice)
       THEN b
       ELSE AskStep(b, step + 1)

\* manage_calibration(), lines 2607-2680.
manage_calibration(s, type, code) ==
    LET a == Check(s, s.calibrating_controller < 2, "manage_calibration")
        fz == freeze(a, TRUE)
        step == FirstOpen(a.calibration_steps, 1)
        un == freeze([a EXCEPT !.calibration_steps = [i \in 1..NumSteps |-> NoStep]],
                     FALSE)
        b == IF step <= NumSteps /\ ~a.calibration_steps[step].once
             THEN LET a1 == Check(a, ~a.calibration_steps[step].twice,
                                  "manage_calibration")
                  IN IF Dead(a1) THEN a1
                     ELSE [a1 EXCEPT !.calibration_steps[step] =
                             [once |-> TRUE, twice |-> @.twice,
                              type |-> type, code |-> code]]
             ELSE a
    IN IF Dead(a) THEN a
       ELSE IF ~a.calibrating
       THEN IF Dead(fz) THEN fz
            ELSE AskStep([fz EXCEPT !.calibrating = TRUE], 1)
       ELSE IF step = NumSteps + 1
       THEN IF Dead(un) THEN un ELSE [un EXCEPT !.calibrating = FALSE]
       ELSE IF Dead(b) THEN b
       ELSE IF ~(b.calibration_steps[step].once /\ b.calibration_steps[step].twice)
       THEN b
       ELSE AskStep(b, step + 1)

\* The loop of lines 3022-3030 from entry i of control[] on.
RECURSIVE PressControls(_, _, _)
PressControls(s, ksym, i) ==
    IF Dead(s) THEN s
    ELSE IF i > Len(Controls) THEN [s EXCEPT !.ret = 1]
    ELSE LET c == Controls[i]
             s1 == ctl_press([s EXCEPT !.control[c] =
                                [pressed |-> TRUE, coord |-> FALSE]], c)
         IN IF ksym # s.rc.k[c] THEN PressControls(s, ksym, i + 1)
            ELSE IF Dead(s1) \/ s1.ret = 0 THEN s1
            ELSE PressControls(s1, ksym, i + 1)

\* The loop of lines 3055-3063 from entry i of control[] on.
RECURSIVE ReleaseKey(_, _, _)
ReleaseKey(s, ksym, i) ==
    IF i > Len(Controls) THEN [s EXCEPT !.ret = 1]
    ELSE LET c == Controls[i]
             s1 == [s EXCEPT !.control[c] = [pressed |-> FALSE, coord |-> FALSE]]
             s2 == IF HasRelease(c) THEN ctl_release(s1, c) ELSE s1
         IN IF ksym # (s.rc.k[c] % KEYSYM_MOD_META) THEN ReleaseKey(s, ksym, i + 1)
            ELSE IF HasRelease(c) /\ s2.ret = 0 THEN s2
            ELSE ReleaseKey(s2, ksym, i + 1)

\* The keysym of lines 2962-2979: the unicode translation when there is one,
\* and the modifier.
KeySym(sym, uni, ctrl) ==
    (IF uni >= 32 THEN uni ELSE sym) + (IF ctrl THEN KEYSYM_MOD_CTRL ELSE 0)

\* The switch of lines 3003-3017 with the stop key tested first.
stopped_keys_stopfirst(s, ksym) ==
    IF ksym = s.rc.k["dgen_stop"] THEN restart_events(s)
    ELSE IF ksym = s.rc.k["dgen_game_genie"]
    THEN [s EXCEPT !.events = "STOPPED_GAME_GENIE"]
    ELSE IF ksym = s.rc.k["dgen_prompt"]
    THEN [s EXCEPT !.events = "STOPPED_PROMPT"]
    ELSE IF ksym = s.rc.k["dgen_quit"]
    THEN [restart_events(s) EXCEPT !.ret = 0]
    ELSE s

\* case STOPPED of pd_handle_events, lines 3003-3019.
stopped_keys(s, ksym) ==
    IF ksym = s.rc.k["dgen_game_genie"]
    THEN [s EXCEPT !.events = "STOPPED_GAME_GENIE"]
    ELSE IF ksym = s.rc.k["dgen_prompt"]
    THEN [s EXCEPT !.events = "STOPPED_PROMPT"]
    ELSE IF ksym = s.rc.k["dgen_quit"]
    THEN [restart_events(s) EXCEPT !.ret = 0]
    ELSE IF ksym = s.rc.k["dgen_stop"] THEN restart_events(s)
    ELSE s

\* case SDL_KEYDOWN of pd_handle_events, lines 2961-3031.
KeyDown(s, sym, uni, ctrl) ==
    LET ksym == KeySym(sym, uni, ctrl)
        u == IF uni >= 32 THEN uni ELSE 0
        gg == manage_game_genie(s, ksym, u)
    IN IF s.calibrating THEN manage_calibration(s, "RCBK", ksym)
       ELSE IF s.events = "STARTED" THEN PressControls(s, ksym, 1)
       ELSE IF s.events \in {"GAME_GENIE", "STOPPED_GAME_GENIE"}
       THEN IF gg.ret = 0 THEN [gg EXCEPT !.ret = 1]
            ELSE IF s.events = "STOPPED_GAME_GENIE"
            THEN [gg EXCEPT !.events = "STOPPED", !.ret = 1]
            ELSE [restart_events(gg) EXCEPT !.ret = 1]
       ELSE IF s.events = "STOPPED" THEN stopped_keys(s, ksym)
       ELSE s

\* case SDL_KEYUP of pd_handle_events, lines 3032-3064; the key comes up
\* with the translation it went down with, which is the key itself here.
KeyUp(s, sym) ==
    IF s.calibrating \/ s.events # "STARTED" THEN s
    ELSE ReleaseKey(s, sym, 1)

\* plist and rlist of lines 3075-3100.
Plist(xrel, yrel) ==
    (IF xrel < 0 THEN <<"l">> ELSE IF xrel > 0 THEN <<"r">> ELSE <<>>)
    \o (IF yrel < 0 THEN <<"u">> ELSE IF yrel > 0 THEN <<"d">> ELSE <<>>)

Rlist(xrel, yrel) ==
    (IF xrel < 0 THEN <<"r">> ELSE IF xrel > 0 THEN <<"l">> ELSE <<"r", "l">>)
    \o (IF yrel < 0 THEN <<"d">> ELSE IF yrel > 0 THEN <<"u">> ELSE <<"d", "u">>)

\* Lines 3109-3112: the motions feed the calibration while it lasts.
RECURSIVE CalibrateMotions(_, _, _)
CalibrateMotions(s, pl, i) ==
    IF Dead(s) \/ ~s.calibrating \/ i > Len(pl) THEN s
    ELSE CalibrateMotions(manage_calibration(s, "RCBM", pl[i]), pl, i + 1)

\* Lines 3118-3129 for control c from entry i of rlist on, s being the
\* state the entry is read in.
RECURSIVE MotionRelease(_, _, _, _)
MotionReleaseFrom(s, c, rl, i) ==
    IF i > Len(rl) THEN [s EXCEPT !.ret = 1]
    ELSE LET s1 == [s EXCEPT !.control[c] = [pressed |-> FALSE, coord |-> TRUE]]
             s2 == IF HasRelease(c) THEN ctl_release(s1, c) ELSE s1
         IN IF ~s.control[c].pressed \/ s.rc.m[c] # rl[i]
            THEN MotionRelease(s, c, rl, i + 1)
            ELSE IF HasRelease(c) /\ s2.ret = 0 THEN s2
            ELSE MotionRelease(s2, c, rl, i + 1)

\* The same with the state computed once, then read as a value.
MotionRelease(s0, c, rl, i) ==
    CHOOSE r \in {MotionReleaseFrom(s, c, rl, i) : s \in {s0}} : TRUE

\* Lines 3130-3140 for control c from entry i of plist on.
RECURSIVE MotionPress(_, _, _, _)
MotionPress(s, c, pl, i) ==
    IF Dead(s) THEN s
    ELSE IF i > Len(pl) THEN [s EXCEPT !.ret = 1]
    ELSE LET s1 == ctl_press([s EXCEPT !.control[c] =
                                [pressed |-> TRUE, coord |-> TRUE]], c)
         IN IF s.rc.m[c] # pl[i] THEN MotionPress(s, c, pl, i + 1)
            ELSE IF Dead(s1) \/ s1.ret = 0 THEN s1
            ELSE MotionPress(s1, c, pl, i + 1)

\* The loop of lines 3116-3141 from entry i of control[] on, s being the
\* state the entry is read in.
RECURSIVE MotionControls(_, _, _, _)
MotionControlsFrom(s, pl, rl, i) ==
    IF i > Len(Controls) THEN [s EXCEPT !.ret = 1]
    ELSE LET r == MotionRelease(s, Controls[i], rl, 1)
             p == MotionPress(r, Controls[i], pl, 1)
         IN IF r.ret = 0 THEN r
            ELSE IF Dead(p) \/ p.ret = 0 THEN p
            ELSE MotionControls(p, pl, rl, i + 1)

\* The same with the state computed once, then read as a value.
MotionControls(s0, pl, rl, i) ==
    CHOOSE r \in {MotionControlsFrom(s, pl, rl, i) : s \in {s0}} : TRUE

\* The label mouse_motion of pd_handle_events, lines 3073-3142;
\* mouse_motion_delay_release() arms the release of a motion that presses.
MouseMotion(s, xrel, yrel) ==
    LET pl == Plist(xrel, yrel)
        rl == Rlist(xrel, yrel)
        s1 == [s EXCEPT !.mmr = (Len(pl) # 0)]
    IN IF s1.calibrating THEN CalibrateMotions(s1, pl, 1)
       ELSE IF s1.events # "STARTED" THEN s1
       ELSE MotionControls(s1, pl, rl, 1)

\* What an event handled by pd_handle_events leaves: the state, where the
\* loop of main() goes on, and the record of the event.
Handled(op, ksym, r, n) ==
    /\ r.pd_freeze_ref <= MaxRef
    /\ events' = r.events
    /\ pd_freeze' = r.pd_freeze
    /\ pd_freeze_ref' = r.pd_freeze_ref
    /\ calibrating' = r.calibrating
    /\ calibrating_controller' = r.calibrating_controller
    /\ calibration_steps' = r.calibration_steps
    /\ control' = r.control
    /\ rc' = r.rc
    /\ input' = r.input
    /\ stopped' = r.stopped
    /\ loop' = [loop EXCEPT
                  !.pc = IF Dead(r) THEN "aborted"
                         ELSE IF r.ret = 0 THEN "done" ELSE @,
                  !.failed = r.failed,
                  !.mmr = r.mmr,
                  !.left = IF @ = -1 THEN -1 ELSE @ - n]
    /\ elast' = [op |-> op, ksym |-> ksym, pre |-> events,
                 pre_cal |-> calibrating, pre_ref |-> pd_freeze_ref,
                 pre_freeze |-> pd_freeze,
                 pre_buf |-> IF events \in {"GAME_GENIE", "STOPPED_GAME_GENIE"}
                             THEN input.buf ELSE <<>>,
                 pre_pos |-> IF events \in {"GAME_GENIE", "STOPPED_GAME_GENIE"}
                             THEN input.pos ELSE 0,
                 pre_ctlr |-> IF op = "calibrate" THEN calibrating_controller
                              ELSE 0,
                 pre_steps |-> IF op = "calibrate" THEN calibration_steps
                               ELSE <<>>,
                 pre_open |-> IF calibrating THEN FirstOpen(calibration_steps, 1)
                              ELSE 0,
                 pre_once |-> /\ calibrating
                              /\ FirstOpen(calibration_steps, 1) <= NumSteps
                              /\ calibration_steps[FirstOpen(calibration_steps, 1)].once,
                 calls |-> r.calls, patch |-> r.patch, commits |-> r.commits,
                 cmd |-> r.cmd, args |-> r.args, ret |-> r.ret,
                 one_frame |-> FALSE, main |-> <<>>]
    /\ UNCHANGED othersOfEvents

\* SDL_PollEvent() has an event to give: no motion release is due.
Polling == loop.pc = "events" /\ ~loop.mmr /\ loop.left # 0

\* One turn of the loop of main(), src/main.cpp lines 261-273, up to the call
\* of pd_handle_events: the core runs a frame, the sound of the frame is
\* written when dgen_sound is set, the frame is shown; pd_handle_events then
\* finds what SDL has queued.  called is the sequence of the calls made.
RunFrame(called) ==
    /\ loop.pc = "frame"
    /\ \E n \in (IF loop.left = -1 THEN {-1} ELSE 0..MaxQueue) :
         loop' = [loop EXCEPT !.pc = "events", !.left = n]
    /\ elast' = [NoEvent EXCEPT !.op = "frame", !.pre = events,
                                !.pre_cal = calibrating,
                                !.pre_ref = pd_freeze_ref,
                                !.pre_freeze = pd_freeze,
                                !.one_frame = TRUE,
                                !.main = called]
    /\ UNCHANGED <<events, pd_freeze, pd_freeze_ref, calibrating,
                   calibrating_controller, calibration_steps, control, rc,
                   input, stopped>>
    /\ UNCHANGED othersOfEvents

\* The turn of the loop with the sound written whatever dgen_sound is.
MainFrameSound ==
    RunFrame(<<"one_frame", "pd_sound_write", "pd_graphics_update">>)

\* The turn of the loop as main() runs it, lines 262-271.
MainFrame ==
    RunFrame(IF loop.dgen_sound
             THEN <<"one_frame", "pd_sound_write", "pd_graphics_update">>
             ELSE <<"one_frame", "pd_graphics_update">>)

\* pd_handle_events returning 1 whatever SDL still holds.
PollEarly ==
    /\ loop.pc = "events"
    /\ ~loop.mmr
    /\ loop' = [loop EXCEPT !.pc = "frame"]
    /\ UNCHANGED <<events, pd_freeze, pd_freeze_ref, calibrating,
                   calibrating_controller, calibration_steps, control, rc,
                   input, elast, stopped>>
    /\ UNCHANGED othersOfEvents

\* pd_handle_events finds the queue empty and returns 1, lines 2954-2959.
PollEmpty ==
    /\ loop.pc = "events"
    /\ ~loop.mmr
    /\ loop.left \in {0, -1}
    /\ loop' = [loop EXCEPT !.pc = "frame"]
    /\ UNCHANGED <<events, pd_freeze, pd_freeze_ref, calibrating,
                   calibrating_controller, calibration_steps, control, rc,
                   input, elast, stopped>>
    /\ UNCHANGED othersOfEvents

HandleKeyDown ==
    /\ Polling
    /\ \E k \in KeyDownInputs :
         Handled("keydown", KeySym(k[1], k[2], k[3]),
                 KeyDown(Cur, k[1], k[2], k[3]), 1)

HandleKeyUp ==
    /\ Polling
    /\ \E sym \in KeyInputs : Handled("keyup", sym, KeyUp(Cur, sym), 1)

\* case SDL_MOUSEMOTION, lines 3065-3072: without the grab the pointer is
\* shown and nothing else happens.
HandleMouseMotion ==
    /\ Polling
    /\ \E grabbed \in BOOLEAN, xrel \in {-1, 0, 1} :
         Handled("motion", 0,
                 IF grabbed THEN MouseMotion(Cur, xrel, 0) ELSE Cur, 1)

\* mouse_motion_released(), lines 2897-2922, at the label next_event: the
\* release that is due comes before any event of the queue, as a motion of
\* 0, 0.
ReleasedMotion ==
    /\ loop.pc = "events"
    /\ loop.mmr
    /\ Handled("motion", 0, MouseMotion(Cur, 0, 0), 0)

\* The arguments of the command after its name: none, atoi() of the one
\* there is (0 for a text that does not start with a number), or two.
ArgInputs == {<<>>, <<0>>, <<1>>, <<2>>, <<3>>, <<1, 1>>}

\* prompt_cmd_calibrate() taking the argument as the index of the controller.
prompt_cmd_calibrate_index(s, args) ==
    LET n_args == Len(args) + 1
        s0 == [s EXCEPT !.args = args]
        s1 == [s0 EXCEPT !.calibrating_controller = 0]
        s2 == [s0 EXCEPT !.calibrating_controller = UInt(args[1])]
        ok(x) == [manage_calibration(x, "RCB_NUM", -1) EXCEPT !.cmd = "CMD_OK"]
    IN IF n_args = 1 THEN ok(s1)
       ELSE IF n_args = 2
       THEN IF s2.calibrating_controller > 1 THEN [s2 EXCEPT !.cmd = "CMD_EINVAL"]
            ELSE ok(s2)
       ELSE [s0 EXCEPT !.cmd = "CMD_EINVAL"]

\* prompt_cmd_calibrate(), lines 1401-1416: n_args counts the name of the
\* command and the arguments args that follow it.
prompt_cmd_calibrate(s, args) ==
    LET n_args == Len(args) + 1
        s0 == [s EXCEPT !.args = args]
        s1 == [s0 EXCEPT !.calibrating_controller = 0]
        s2 == [s0 EXCEPT !.calibrating_controller = UInt(args[1] - 1)]
        ok(x) == [manage_calibration(x, "RCB_NUM", -1) EXCEPT !.cmd = "CMD_OK"]
    IN IF n_args = 1 THEN ok(s1)
       ELSE IF n_args = 2
       THEN IF s2.calibrating_controller > 1 THEN [s2 EXCEPT !.cmd = "CMD_EINVAL"]
            ELSE ok(s2)
       ELSE [s0 EXCEPT !.cmd = "CMD_EINVAL"]

\* The command interpreter, which the prompt modes feed, calls
\* prompt_cmd_calibrate.
PromptCmdCalibrate ==
    /\ Polling
    /\ events \in {"PROMPT", "STOPPED_PROMPT"}
    /\ \E args \in ArgInputs :
         Handled("calibrate", 0, prompt_cmd_calibrate(Cur, args), 0)

\* case SDL_QUIT of pd_handle_events, lines 3144-3146.
HandleQuit ==
    /\ Polling
    /\ Handled("quit", 0, [Cur EXCEPT !.ret = 0], 1)

\* main() after its loop, src/main.cpp lines 276-301: the save RAM is
\* saved, and the state when dgen_autosave is set, the cartridge is
\* unplugged, the sound and the platform are shut down, main() returns.
Shutdown ==
    /\ loop.pc = "done"
    /\ loop' = [loop EXCEPT !.pc = "exited"]
    /\ \E dgen_autosave \in BOOLEAN :
         elast' = [NoEvent EXCEPT
                     !.op = "shutdown", !.pre = events,
                     !.main = <<"ram_save">>
                              \o (IF dgen_autosave THEN <<"md_save">> ELSE <<>>)
                              \o <<"unplug", "pd_sound_deinit", "pd_quit">>]
    /\ UNCHANGED <<events, pd_freeze, pd_freeze_ref, calibrating,
                   calibrating_controller, calibration_steps, control, rc,
                   input, stopped>>
    /\ UNCHANGED othersOfEvents

\* stop_events, restart_events and manage_calibration called in any order.
StopEvents ==
    \E status \in {"STOPPED", "GAME_GENIE"} :
       Handled("stop_events", 0, stop_events(Cur, status), 0)

RestartEvents == Handled("restart_events", 0, restart_events(Cur), 0)

ManageCalibration ==
    \E code \in {-1, SDLK_a} :
       Handled("manage_calibration", code,
               manage_calibration(Cur, IF code = -1 THEN "RCB_NUM" ELSE "RCBK", code),
               0)


----------------------------------------------------------------------------
(* Combos: manage_combos and check_combos                                    *)

\* The variables the combos leave alone.
othersOfCombos == <<cbufVars, soundVars, filterVars, stageVars, videoVars, stopped, evVars,
    shotVars, kbVars>>

\* elemof(combos), 64 in the source.
MaxCombos == 3
\* The entries of the array item[] of check_combos explored.
MaxItems == 2

\* The codes that go down and come up: keys and mouse motions.
Pairs == [type : {"RCBK", "RCBM"}, code : {1, 2}]

KEYSYM_MOD_ALT == 1073741824
KEYSYM_MOD_SHIFT == 536870912

\* The key events explored from the start of the program.
MaxKeyEvents == 4

\* The keys of the key events and the modifiers held with them.
ComboKeys == {SDLK_a, SDLK_LEFT}

KMods == {"shift", "ctrl", "alt", "meta"}

\* The entries of kpress[] the keys use: ksym & 0xff.
KpressSlots == {k % 256 : k \in ComboKeys}

\* An entry of zeroes: not assigned.
ZeroItem == [assigned |-> FALSE, type |-> "RCBK", code |-> 0]

Item(p) == [assigned |-> TRUE, type |-> p.type, code |-> p.code]

\* The arrays item[] given to check_combos with num their length: the
\* members are assigned from the first entry on, the entries after them are
\* not; a member may be there twice.
Contiguous(item) ==
    \A i \in 1..Len(item) : item[i].assigned => \A k \in 1..i : item[k].assigned

ItemInputs ==
    {item \in UNION {[1..n -> {Item(p) : p \in Pairs} \cup {ZeroItem}] :
                        n \in 0..MaxItems} : Contiguous(item)}

NoCombo == [op |-> "none", pair |-> ZeroItem, item |-> <<>>, ret |-> FALSE,
            pre |-> <<>>, pre_held |-> <<>>, over |-> FALSE, n |-> 0]

\* The static initialiser of line 2682.
CombosStart ==
    /\ combos = [i \in 1..MaxCombos |-> ZeroItem]
    /\ held = <<>>
    /\ clast = NoCombo
    /\ kpress = [i \in KpressSlots |-> 0]

\* The combos in the specifications that do not exercise them.
CombosRest == CombosStart

\* memmove(&combos[i], &combos[i + 1], ...) of line 2705, i counted from 1:
\* the entries after i move down by one and the last one stays as it is.
MoveDown(cs, i) ==
    [k \in 1..MaxCombos |-> IF k >= i /\ k < MaxCombos THEN cs[k + 1] ELSE cs[k]]

\* The loop of manage_combos, lines 2690-2708, from entry i on.
RECURSIVE ScanCombos(_, _, _, _, _)
ScanCombos(cs, i, pressed, type, code) ==
    IF i > MaxCombos THEN cs
    ELSE IF ~cs[i].assigned
    THEN IF ~pressed THEN cs
         ELSE [cs EXCEPT ![i] = [assigned |-> TRUE, type |-> type, code |-> code]]
    ELSE IF cs[i].type # type \/ cs[i].code # code
    THEN ScanCombos(cs, i + 1, pressed, type, code)
    ELSE IF pressed THEN cs
    ELSE MoveDown(cs, i)

\* manage_combos(), lines 2684-2709.
manage_combos(cs, pressed, type, code) == ScanCombos(cs, 1, pressed, type, code)

\* The loop of lines 2725-2733 finds it among the entries before the first
\* one that is not assigned.
FoundIn(cs, it) ==
    \E j \in 1..MaxCombos :
       /\ \A k \in 1..j : cs[k].assigned
       /\ cs[j].type = it.type
       /\ cs[j].code = it.code

\* num after the loop of lines 2718-2734: the index of the first entry of
\* item[] that is not assigned, or num.
RECURSIVE ItemCount(_, _)
ItemCount(item, i) ==
    IF i > Len(item) THEN Len(item)
    ELSE IF ~item[i].assigned THEN i - 1
    ELSE ItemCount(item, i + 1)

\* check_combos(), lines 2711-2738, with num the length of item.
check_combos(cs, item) ==
    LET num == ItemCount(item, 1)
        found == Cardinality({i \in 1..num : FoundIn(cs, item[i])})
    IN num # 0 /\ found = num

\* The position of p in the sequence h, 0 when it is not there.
PosIn(h, p) ==
    IF \E i \in 1..Len(h) : h[i] = p
    THEN CHOOSE i \in 1..Len(h) : h[i] = p
    ELSE 0

\* A code goes down: a key or a motion that is held already (a key that
\* repeats) included.
ManageCombosPress ==
    \E p \in Pairs :
       /\ combos' = manage_combos(combos, TRUE, p.type, p.code)
       /\ held' = IF PosIn(held, p) # 0 THEN held ELSE Append(held, p)
       /\ clast' = [NoCombo EXCEPT !.op = "press", !.pair = Item(p),
                                   !.pre = combos, !.pre_held = held,
                                   !.over = clast.over \/ Len(held') > MaxCombos]
       /\ UNCHANGED <<kpress, othersOfCombos>>

\* A code comes up: one that is not held included.
ManageCombosRelease ==
    \E p \in Pairs :
       /\ combos' = manage_combos(combos, FALSE, p.type, p.code)
       /\ held' = SelectSeq(held, LAMBDA q : q # p)
       /\ clast' = [NoCombo EXCEPT !.op = "release", !.pair = Item(p),
                                   !.pre = combos, !.pre_held = held,
                                   !.over = clast.over]
       /\ UNCHANGED <<kpress, othersOfCombos>>

CheckCombos ==
    \E item \in ItemInputs :
       /\ clast' = [NoCombo EXCEPT !.op = "check", !.item = item,
                                   !.ret = check_combos(combos, item),
                                   !.pre = combos, !.pre_held = held,
                                   !.over = clast.over]
       /\ UNCHANGED <<combos, held>>
       /\ UNCHANGED <<kpress, othersOfCombos>>

\* The unicode translations SDL may give for a key: none, or its character.
UniOf(sym) == IF sym = SDLK_a THEN {0, SDLK_a} ELSE {0}

\* The keysym of lines 2962-2979 with every modifier: the unicode translation
\* when there is one, else the key with the shift bit, then the bits of ctrl,
\* alt and meta.
KeySymMods(sym, uni, mods) ==
    (IF uni # 0 THEN uni
     ELSE sym + (IF "shift" \in mods THEN KEYSYM_MOD_SHIFT ELSE 0))
    + (IF "ctrl" \in mods THEN KEYSYM_MOD_CTRL ELSE 0)
    + (IF "alt" \in mods THEN KEYSYM_MOD_ALT ELSE 0)
    + (IF "meta" \in mods THEN KEYSYM_MOD_META ELSE 0)

\* The five calls of lines 3042-3046 for the keysym of a key that comes up.
ReleaseCombos(cs, ksym) ==
    LET c1 == manage_combos(cs, FALSE, "RCBK", ksym)
        c2 == manage_combos(c1, FALSE, "RCBK", ksym + KEYSYM_MOD_ALT)
        c3 == manage_combos(c2, FALSE, "RCBK", ksym + KEYSYM_MOD_SHIFT)
        c4 == manage_combos(c3, FALSE, "RCBK", ksym + KEYSYM_MOD_CTRL)
    IN manage_combos(c4, FALSE, "RCBK", ksym + KEYSYM_MOD_META)

\* case SDL_KEYDOWN, lines 2961-2981, for a key that is up: the translation
\* is kept in kpress[] and the keysym with its modifiers goes into combos[].
\* held keeps the key with the code it went down with.
ComboKeyDown ==
    \E sym \in ComboKeys, mods \in SUBSET KMods :
      \E uni \in UniOf(sym) :
       LET ksym == KeySymMods(sym, uni, mods)
       IN /\ clast.n < MaxKeyEvents
          /\ \A j \in 1..Len(held) : held[j].sym # sym
          /\ kpress' = [kpress EXCEPT ![sym % 256] = uni]
          /\ combos' = manage_combos(combos, TRUE, "RCBK", ksym)
          /\ held' = Append(held, [type |-> "RCBK", code |-> ksym, sym |-> sym])
          /\ clast' = [NoCombo EXCEPT !.op = "keydown",
                                      !.pair = Item([type |-> "RCBK", code |-> ksym]),
                                      !.pre = combos, !.pre_held = held,
                                      !.over = clast.over \/ Len(held') > MaxCombos,
                                      !.n = clast.n + 1]
          /\ UNCHANGED othersOfCombos

\* case SDL_KEYUP, lines 3032-3046, for a key that is down: the keysym is
\* the translation kept in kpress[], or the key.
ComboKeyUp ==
    \E j \in 1..Len(held) :
       LET sym == held[j].sym
           uni == kpress[sym % 256]
           ksym == IF uni # 0 THEN uni ELSE sym
       IN /\ clast.n < MaxKeyEvents
          /\ kpress' = [kpress EXCEPT ![sym % 256] = 0]
          /\ combos' = ReleaseCombos(combos, ksym)
          /\ held' = SubSeq(held, 1, j - 1) \o SubSeq(held, j + 1, Len(held))
          /\ clast' = [NoCombo EXCEPT !.op = "keyup",
                                      !.pair = Item(held[j]),
                                      !.pre = combos, !.pre_held = held,
                                      !.over = clast.over,
                                      !.n = clast.n + 1]
          /\ UNCHANGED othersOfCombos

----------------------------------------------------------------------------
(* do_screenshot *)

othersOfShot == <<cbufVars, soundVars, filterVars, stageVars, videoVars, evVars,
    comboVars, kbVars>>

\* The modulus of the counter n of the file names, 1000000 in the source
\* (line 754).
MaxShots == 3

\* What dgen_fopen(..., DGEN_APPEND) and ftell() make of a name: no file of
\* that name, an empty file, a file with data, a file whose position cannot
\* be told, a name that cannot be opened.
FileStates == {"absent", "empty", "data", "noseek", "denied"}

NoShot ==
    [pc |-> "idle", n |-> 0, dir |-> [i \in 0..(MaxShots - 1) |-> "absent"],
     result |-> "none"]

\* No screenshot is taken.
ShotRest == shot = NoShot

\* The static n of line 697 and any state of the screenshots directory.
ShotStart ==
    shot \in [pc : {"idle"}, n : {0}, dir : [0..(MaxShots - 1) -> FileStates],
              result : {"none"}]

\* do_screenshot(), lines 695-741: a depth that is not 15, 16, 24 or 32
\* returns; n starts again from 0 when the ROM name has changed.
DoScreenshot ==
    /\ shot.pc = "idle"
    /\ \E bpp \in {8, 16}, renamed \in BOOLEAN :
         IF bpp = 8
         THEN /\ shot' = [shot EXCEPT !.result = "depth"]
              /\ UNCHANGED stopped
         ELSE /\ shot' = [shot EXCEPT !.pc = "retry",
                                      !.n = IF renamed THEN 0 ELSE @,
                                      !.result = "none"]
              /\ stopped' = 1
    /\ UNCHANGED othersOfShot

\* The label retry, lines 741-756: the name of n is opened for appending,
\* which makes the file when there is none; a file that has data, or whose
\* position is -1, is closed and the next n is tried.
ShotRetry ==
    /\ shot.pc = "retry"
    /\ LET f == shot.dir[shot.n]
       IN shot' = IF f = "denied"
                  THEN [shot EXCEPT !.pc = "idle", !.result = "unopened"]
                  ELSE IF f \in {"data", "noseek"}
                  THEN [shot EXCEPT !.n = (@ + 1) % MaxShots]
                  ELSE [shot EXCEPT !.pc = "write", !.dir[shot.n] = "empty"]
    /\ UNCHANGED <<stopped, othersOfShot>>

\* Lines 757-876: the line buffer, the header and the lines; malloc, fwrite
\* or screen_lock may fail, before or after bytes reached the file.
ShotWrite ==
    /\ shot.pc = "write"
    /\ \E r \in {"written", "failed_empty", "failed_partial"} :
         shot' = [shot EXCEPT !.pc = "idle", !.result = r,
                              !.dir[shot.n] = IF r = "failed_empty"
                                              THEN "empty" ELSE "data"]
    /\ UNCHANGED <<stopped, othersOfShot>>

----------------------------------------------------------------------------
(* kb_input and its history *)

othersOfKb == <<cbufVars, soundVars, filterVars, stageVars, videoVars, stopped,
    evVars, comboVars, shotVars>>

SDLK_UP == 273
SDLK_DOWN == 274

\* Rows of the history array, 32 in the source (line 1929).
HISTORY_LEN == 2

\* The keys fed to kb_input: a printable one, the editing keys, Enter, Escape
\* and the two history keys.
KbKeys ==
    {SDLK_a, SDLK_DELETE, SDLK_BACKSPACE, SDLK_LEFT, SDLK_RIGHT, SDLK_RETURN,
     SDLK_ESCAPE, SDLK_UP, SDLK_DOWN}

\* What a read of the 64 bytes before history[0] may find: no string, a short
\* one, one longer than the input buffer.
Strays == {<<>>, <<SDLK_b>>, [i \in 1..(BufSize + 1) |-> SDLK_b]}

\* The statics of lines 1929-1932 and 2742-2743 before the first key: the
\* history is all zeroes, history_pos is -1 and history_len 0. key, res,
\* buf_hi, hist_rows and patch record the last call: the highest index of the
\* input buffer it read or wrote (-1 when it touched none) and the rows of
\* history it read.
NoKb ==
    [input |-> NoInput, history |-> [i \in 0..(HISTORY_LEN - 1) |-> <<>>],
     history_pos |-> -1, history_len |-> 0,
     key |-> 0, res |-> "none", buf_hi |-> -1, hist_rows |-> <<>>,
     patch |-> <<>>]

KbRest == kb = NoKb

\* The highest index of input->buf that kb_input reads or writes for a key
\* that is not a history key, -1 when it touches none: the memmove of lines
\* 1951 and 1963 moves size - pos + 1 bytes from buf + pos + 1 to buf + pos.
BufHi(inp, ksym, uni) ==
    IF (ksym \div KEYSYM_MOD_CTRL) % 2 = 1 THEN -1
    ELSE IF IsPrint(uni)
    THEN IF inp.pos >= inp.size - 1 THEN -1
         ELSE IF inp.pos = Len(inp.buf) THEN inp.pos + 1 ELSE inp.pos
    ELSE IF ksym = SDLK_DELETE
    THEN IF inp.pos = Len(inp.buf) THEN inp.pos ELSE inp.size + 1
    ELSE IF ksym = SDLK_BACKSPACE
    THEN IF inp.pos = 0 THEN -1 ELSE inp.size + 1
    ELSE IF ksym = SDLK_RIGHT THEN inp.pos
    ELSE IF ksym = SDLK_RETURN \/ ksym = SDLK_KP_ENTER
    THEN IF inp.pos = 0 THEN -1 ELSE Len(inp.buf)
    ELSE -1

\* strncpy(input->buf, row, input->size) and the terminator and strlen of
\* lines 1997-1999 and 2007-2009: the string is cut at size - 1.
CopyRow(inp, row) ==
    LET n == IF Len(row) < inp.size - 1 THEN Len(row) ELSE inp.size - 1
    IN [inp EXCEPT !.buf = SubSeq(row, 1, n), !.pos = n]

\* kb_input(), lines 1925-2014, with its history: the input buffer is edited
\* as kb_input above does, Enter and Escape set history_pos, Enter stores the
\* line, Up and Down copy a row of history. A row index outside history reads
\* the bytes that lie there, stray.
KbInput(k, ksym, uni, stray) ==
    LET inp == k.input
        r == kb_input(inp, ksym, uni)
        plain == (ksym \div KEYSYM_MOD_CTRL) % 2 = 0 /\ ~IsPrint(uni)
        len1 == IF k.history_len < HISTORY_LEN THEN k.history_len + 1
                ELSE k.history_len
        up == IF k.history_pos < k.history_len - 1 THEN k.history_pos + 1
              ELSE k.history_pos
        down == IF k.history_pos > 0 THEN k.history_pos - 1 ELSE k.history_pos
        Row(i) == IF i \in 0..(HISTORY_LEN - 1) THEN k.history[i] ELSE stray
        base == [k EXCEPT !.key = ksym, !.res = r.res, !.input = r.input,
                          !.buf_hi = BufHi(inp, ksym, uni),
                          !.hist_rows = <<>>, !.patch = <<>>]
        Copied(i) == [base EXCEPT !.res = "CONSUMED", !.history_pos = i,
                                  !.hist_rows = <<i>>,
                                  !.input = CopyRow(inp, Row(i)),
                                  !.buf_hi = inp.size - 1]
    IN IF plain /\ ksym = SDLK_UP
       THEN IF inp.size = 0 THEN [base EXCEPT !.res = "CONSUMED"]
            ELSE Copied(up)
       ELSE IF plain /\ ksym = SDLK_DOWN
       THEN IF inp.size = 0 \/ k.history_pos < 0
            THEN [base EXCEPT !.res = "CONSUMED"]
            ELSE Copied(down)
       ELSE IF r.res = "ENTERED"
       THEN [base EXCEPT
               !.history_pos = -1,
               !.history_len = len1,
               !.history = [i \in 0..(HISTORY_LEN - 1) |->
                              IF i = 0 THEN inp.buf
                              ELSE IF i <= len1 - 1 THEN k.history[i - 1]
                              ELSE k.history[i]]]
       ELSE IF plain /\ (ksym = SDLK_RETURN \/ ksym = SDLK_KP_ENTER)
       THEN [base EXCEPT !.history_pos = -1]
       ELSE IF plain /\ ksym = SDLK_ESCAPE
       THEN [base EXCEPT !.history_pos = 0]
       ELSE base

\* manage_game_genie(), lines 2740-2766, on the input and the history: an
\* entered line is patched and the input starts again.
GameGenieInput(k, ksym, uni, stray) ==
    LET a == KbInput(k, ksym, uni, stray)
        m == manage_game_genie([input |-> a.input, patch |-> <<>>, ret |-> 0],
                               ksym, uni)
    IN IF a.res = "ENTERED" THEN [a EXCEPT !.input = m.input, !.patch = m.patch]
       ELSE a

\* A key-down in a Game Genie mode, lines 2961-2996: the key with its unicode
\* translation and the ctrl modifier.
GameGenieKey ==
    /\ \E key \in KbKeys, ctrl \in BOOLEAN, stray \in Strays :
         LET uni == IF key = SDLK_a THEN key ELSE 0
         IN kb' = GameGenieInput(kb, KeySym(key, uni, ctrl), uni, stray)
    /\ UNCHANGED othersOfKb


----------------------------------------------------------------------------
(* Specifications *)

vars == <<cbufVars, soundVars, filterVars, stageVars, videoVars, stopped, evVars,
    comboVars, shotVars, kbVars>>

\* The build flag is of no effect outside the filters stack.
FiltersRest == FiltersStart /\ ndebug

InitCbuf == CbufStart /\ SoundStart /\ FiltersRest /\ StageRest /\ VideoRest /\ EventsRest /\ CombosRest /\ ShotRest /\ KbRest

NextCbuf == CbufWrite \/ CbufRead \/ SndCallback

SpecCbuf == InitCbuf /\ [][NextCbuf]_vars

InitSound == CbufRest /\ SoundStart /\ FiltersRest /\ StageRest /\ VideoRest /\ EventsRest /\ CombosRest /\ ShotRest /\ KbRest

NextSound ==
    \/ PdSoundWrite_test \/ PdSoundWrite_lock \/ PdSoundWrite_cbuf
    \/ PdSoundWrite_unlock
    \/ PdSoundRpWp_test \/ PdSoundRpWp_lock \/ PdSoundRp_read
    \/ PdSoundWp_read \/ PdSoundRpWp_unlock
    \/ PdSoundDeinit_call \/ PdSoundDeinit_test \/ PdSoundDeinit_pause
    \/ PdSoundDeinit_close \/ PdSoundDeinit_free \/ PdSoundDeinit_reset
    \/ PdSoundInit_call \/ PdSoundInit_open \/ PdSoundInit_set
    \/ PdSoundInit_alloc \/ PdSoundInit_start \/ PdSoundInit_errclose
    \/ PdSoundInit_errfree
    \/ Audio_enter \/ Audio_callback

SpecSound == InitSound /\ [][NextSound]_vars

InitFilters == CbufRest /\ SoundStart /\ FiltersStart /\ StageRest /\ VideoRest /\ EventsRest /\ CombosRest /\ ShotRest /\ KbRest

NextFilters ==
    \/ ScreenInit \/ FiltersPush \/ FiltersInsert \/ FiltersRemove
    \/ FiltersPluck

SpecFilters == InitFilters /\ [][NextFilters]_vars

\* The rebuild runs one pass per step; a pass that can run does run.
NextRebuild ==
    \/ ScreenInitBegin \/ FiltersPushBegin \/ FiltersInsertBegin
    \/ FiltersRemoveBegin \/ FiltersPluckBegin
    \/ UpdateRetry \/ UpdateDone

SpecRebuild ==
    InitFilters /\ [][NextRebuild]_vars /\ WF_vars(UpdateRetry \/ UpdateDone)

InitStage == CbufRest /\ SoundStart /\ FiltersRest /\ StageStart /\ VideoRest /\ EventsRest /\ CombosRest /\ ShotRest /\ KbRest

NextStage == FilterScale \/ FilterStretch \/ StageRewire

SpecStage == InitStage /\ [][NextStage]_vars

InitFrames == CbufRest /\ SoundStart /\ FiltersRest /\ FramesStart /\ VideoRest /\ EventsRest /\ CombosRest /\ ShotRest /\ KbRest

NextFrames ==
    \/ ScreenInit \/ FiltersPush \/ FiltersInsert \/ FiltersRemove
    \/ FiltersPluck \/ GraphicsUpdate

SpecFrames == InitFrames /\ [][NextFrames]_vars

InitVideo == CbufRest /\ SoundStart /\ FiltersRest /\ StageRest /\ VideoInit /\ EventsRest /\ CombosRest /\ ShotRest /\ KbRest

NextVideo == PdGraphicsInit \/ PdGraphicsReinit \/ PdGraphics_update

SpecVideo == InitVideo /\ [][NextVideo]_vars

InitEvents == CbufRest /\ SoundStart /\ FiltersStart /\ StageRest /\ VideoRest /\ EventsStart /\ CombosRest /\ ShotRest /\ KbRest

NextEvents ==
    \/ MainFrame \/ PollEmpty \/ HandleKeyDown \/ HandleKeyUp
    \/ HandleMouseMotion \/ ReleasedMotion \/ PromptCmdCalibrate

SpecEvents == InitEvents /\ [][NextEvents]_vars

NextFreeze == StopEvents \/ RestartEvents \/ ManageCalibration

SpecFreeze == InitEvents /\ [][NextFreeze]_vars

InitCombos ==
    /\ CbufRest /\ SoundStart /\ FiltersRest /\ StageRest /\ VideoRest /\ EventsRest
    /\ CombosStart /\ ShotRest /\ KbRest

NextCombos == ManageCombosPress \/ ManageCombosRelease \/ CheckCombos

SpecCombos == InitCombos /\ [][NextCombos]_vars

InitLoop ==
    /\ CbufRest /\ SoundStart /\ FiltersStart /\ StageRest /\ VideoRest /\ CombosRest /\ ShotRest /\ KbRest
    /\ LoopStart

NextLoop ==
    \/ MainFrame \/ PollEmpty \/ HandleKeyDown \/ HandleKeyUp
    \/ HandleMouseMotion \/ ReleasedMotion \/ HandleQuit \/ Shutdown

\* main() is one thread that takes its next step as long as it has one.
SpecLoop == InitLoop /\ [][NextLoop]_vars /\ WF_vars(NextLoop)

InitShot ==
    /\ CbufRest /\ SoundStart /\ FiltersRest /\ StageRest /\ VideoRest /\ EventsRest
    /\ CombosRest /\ ShotStart /\ KbRest

NextShot == DoScreenshot \/ ShotRetry \/ ShotWrite

\* do_screenshot runs in the thread of main(): once called it takes its next
\* step as long as it has one.
SpecShot == InitShot /\ [][NextShot]_vars /\ WF_vars(ShotRetry \/ ShotWrite)

InitKb ==
    /\ CbufRest /\ SoundStart /\ FiltersRest /\ StageRest /\ VideoRest /\ EventsRest
    /\ CombosRest /\ ShotRest /\ KbRest

NextKb == GameGenieKey

SpecKb == InitKb /\ [][NextKb]_vars

NextKeys == ComboKeyDown \/ ComboKeyUp

SpecKeys == InitCombos /\ [][NextKeys]_vars

----------------------------------------------------------------------------
(* Properties of the circular buffer (SpecCbuf) *)

\* C1: after any sequence of cbuf_write / cbuf_read calls of any sizes on a
\* buffer of capacity >= 1 that starts empty, 0 <= s <= size and
\* 0 <= i < size.
C1_IndexAndSizeInRange ==
    /\ cbuf.size >= 1
    /\ 0 <= cbuf.s /\ cbuf.s <= cbuf.size
    /\ 0 <= cbuf.i /\ cbuf.i < cbuf.size

\* A call with a size larger than the capacity has moved the read index and
\* filled the buffer.
C1_Witness ==
    /\ last.op = "write" /\ last.len > cbuf.size
    /\ cbuf.i > 0 /\ cbuf.s = cbuf.size

\* C2: as long as no write overflowed, the bytes returned by the reads
\* followed by the bytes still buffered are exactly the bytes written, in
\* order; writing 4 bytes into an empty buffer of capacity 16 and reading 4
\* returns those 4 bytes and leaves occupied = 0.
C2_FifoWithoutOverflow ==
    /\ ~overflowed => written = readout \o Content(cbuf)
    /\ ( /\ cbuf.size = 16 /\ last.op = "read" /\ last.len = 4
         /\ last.pre.s = 4 /\ Len(written) = 4 /\ Len(readout) = 4 )
       => (SubSeq(last.dst, 1, 4) = written /\ last.ret = 4 /\ cbuf.s = 0)

\* A read that wrapped around the end of the storage, with no overflow so far.
C2_Witness ==
    /\ ~overflowed /\ last.op = "read"
    /\ last.pre.i + last.ret > last.pre.size
    /\ last.pre.i + last.ret < 2 * last.pre.size

\* C3: after a cbuf_write that does not fit in the free space the buffer is
\* full and holds, in read order, the last `capacity` bytes of the bytes that
\* were buffered followed by the bytes of the call.
C3_OverflowKeepsNewest ==
    (last.op = "write" /\ last.pre.s + last.len > last.pre.size)
    => /\ cbuf.s = cbuf.size
       /\ Content(cbuf) = LastN(cbuf.size, Content(last.pre) \o last.src)

\* An oversized write into a buffer that was partly filled at a non-zero
\* read index.
C3_Witness ==
    /\ last.op = "write" /\ last.len > last.pre.size
    /\ last.pre.s > 0 /\ last.pre.i > 0 /\ last.pre.s < last.pre.size

\* C4: cbuf_read returns min(n, occupied), stores exactly that many bytes,
\* advances the read index by that amount modulo the capacity and decreases
\* the occupied size by it; on an empty buffer it returns 0 and changes
\* neither index nor size.
C4_ReadReturnsMin ==
    (last.op = "read")
    => /\ last.ret = Min(last.len, last.pre.s)
       /\ \A x \in 1..last.len :
            last.dst[x] = IF x <= last.ret THEN Content(last.pre)[x]
                          ELSE Untouched
       /\ cbuf.i = (last.pre.i + last.ret) % last.pre.size
       /\ cbuf.s = last.pre.s - last.ret
       /\ cbuf.size = last.pre.size /\ cbuf.data = last.pre.data
       /\ (last.pre.s = 0 =>
             (last.ret = 0 /\ cbuf.i = last.pre.i /\ cbuf.s = last.pre.s))

\* A read asking for more than the occupied size of a non-empty buffer.
C4_Witness ==
    /\ last.op = "read" /\ last.pre.s > 0 /\ last.len > last.pre.s
    /\ last.pre.i > 0

\* C5: when snd_callback returns, every byte of the len requested is defined:
\* the first min(len, occupied) are the oldest buffered bytes in order and
\* the rest are 0.
C5_CallbackFillsStream ==
    (last.op = "callback")
    => /\ Len(last.dst) = last.len
       /\ \A x \in 1..last.len :
            last.dst[x] = IF x <= Min(last.len, last.pre.s)
                          THEN Content(last.pre)[x] ELSE 0

\* An underrun: the callback asked for more than was buffered, and some
\* non-zero byte was buffered.
C5_Witness ==
    /\ last.op = "callback" /\ last.pre.s > 0 /\ last.len > last.pre.s
    /\ \E x \in 1..last.pre.s : Content(last.pre)[x] # 0

----------------------------------------------------------------------------
(* Properties of the audio driver (SpecSound) *)

\* The statements of the main thread that read or write the cursors or the
\* storage of sound.cbuf, or set the buffer up or tear it down.
AccessPCs == {"w_cbuf", "rp_read", "wp_read", "i_check", "i_alloc",
              "d_free", "d_reset", "e_free"}

\* The audio thread is in snd_callback or may enter it.
CallbackCanRun == dev = "playing" \/ apc # "idle"

\* C6: in every interleaving, the main thread is at an access to the ring
\* buffer state only while it holds the audio lock or while the callback
\* cannot run, it is never at one while the audio thread is inside
\* snd_callback, and it holds the lock at no return.
C6_AccessUnderLock ==
    /\ (mpc \in AccessPCs) => (lock = "main" \/ ~CallbackCanRun)
    /\ ~(mpc \in AccessPCs /\ apc = "callback")
    /\ (mpc = "idle") => (lock # "main")

\* pd_sound_write holds the lock and is about to run cbuf_write on a buffer
\* that already holds data, while the device is playing.
C6_Witness ==
    /\ mpc = "w_cbuf" /\ lock = "main" /\ dev = "playing"
    /\ sound.cbuf.s > 0

\* C7: pd_sound_deinit is idempotent.  Neither SDL_CloseAudio on a closed
\* device nor free() of a freed block ever happens; after pd_sound_deinit the
\* sound structure is zero (capacity 0), both pointers are NULL and the device
\* is closed; a second pd_sound_deinit, a pd_sound_write, a pd_sound_rp or a
\* pd_sound_wp right after it changes nothing, closes nothing and returns 0;
\* and pd_sound_deinit as the first call ever changes nothing.
C7_DeinitIdempotent ==
    /\ ~misuse
    /\ (mpc = "idle" /\ Len(hist) >= 1 /\ hist[Len(hist)].fn = "deinit")
       => (sound = ZeroSound /\ heap = [data |-> "NULL", lr |-> "NULL"]
           /\ dev = "closed")
    /\ ( /\ mpc = "idle" /\ Len(hist) = 2 /\ hist[1].fn = "deinit"
         /\ hist[2].fn \in {"deinit", "write", "rp", "wp"} )
       => (DriverState = snap /\ hist[2].ret = 0 /\ ~hist[2].closed)
    /\ (mpc = "idle" /\ Len(hist) = 1 /\ hist[1].fn = "deinit")
       => (DriverState = snap /\ ~hist[1].closed)

\* pd_sound_deinit has returned twice in a row, and the first of the two
\* calls closed a device.
C7_Witness ==
    /\ mpc = "idle" /\ Len(hist) = 2
    /\ hist[1].fn = "deinit" /\ hist[1].closed
    /\ hist[2].fn = "deinit"

----------------------------------------------------------------------------
(* Properties of the filters stack (SpecFilters) *)

\* The stack as the variables hold it, bottom first.
Stack == StackSeq(FiltersState)

\* C8: after every completed rebuild, whatever sequence of filters_push,
\* filters_insert, filters_remove and filters_pluck calls preceded it, the
\* stack is neither empty nor over capacity and every entry below
\* filters_stack_size is a stage of filters_available.
C8_StackNeverEmpty ==
    flast.rebuilt
    => /\ 1 <= filters_stack_size
       /\ filters_stack_size <= StackElems
       /\ \A k \in 0..(filters_stack_size - 1) : IsFilter(filters_stack[k])

\* A filters_remove of a stage below the top of a full stack has been rebuilt.
C8_Witness ==
    /\ flast.op = "remove" /\ Len(flast.pre) = StackElems
    /\ flast.index = 0 /\ ~ndebug

\* The last operation removed every stage of a stack of explicit stages.
RemovedLastExplicit ==
    /\ flast.op \in {"remove", "pluck"}
    /\ ~flast.pre_default
    /\ Len(flast.pre) >= 1
    /\ flast.op = "remove" => Len(flast.pre) = 1
    /\ flast.op = "pluck" => \A k \in 1..Len(flast.pre) : flast.pre[k] = flast.f

PushedOnDefault ==
    /\ flast.op = "push" /\ flast.pre_default /\ Len(flast.pre) = 1

\* The last operation was a filters_push of a real stage onto a stack of
\* explicit stages, whether or not the stack had room for it.
PushedFurther ==
    /\ flast.op \in {"push", "push_ignored"} /\ IsFilter(flast.f)
    /\ ~flast.pre_default /\ Len(flast.pre) >= 1

\* C10 as stated: a push onto the auto-inserted stage leaves exactly [f]
\* with the flag cleared, and further pushes append without removing
\* anything.
C10_AsStated ==
    /\ PushedOnDefault => (Stack = <<flast.f>> /\ ~filters_stack_default)
    /\ PushedFurther => Stack = Append(flast.pre, flast.f)

\* C10 as amended: a push onto the auto-inserted stage leaves exactly [f]
\* with the flag cleared; a further push onto a stack that is not full
\* appends f and removes nothing when every scratch-buffer realloc of the
\* rebuild succeeds, and when some fail the stack is what was appended to
\* with one stage dropped from the bottom per failure, f still on top; a
\* push onto a full stack changes nothing.
C10_PushReplacesDefault ==
    /\ PushedOnDefault
       => (Stack = <<flast.f>> /\ ~filters_stack_default /\ flast.drops = 0)
    /\ (PushedFurther /\ flast.op = "push")
       => /\ Stack = LastN(Len(flast.pre) + 1 - flast.drops,
                           Append(flast.pre, flast.f))
          /\ flast.drops <= Len(flast.pre)
          /\ ~filters_stack_default
    /\ (PushedFurther /\ flast.op = "push_ignored")
       => (Stack = flast.pre /\ Len(flast.pre) = StackElems)

\* The scale stage has been pushed onto the auto-inserted stretch stage.
C10_Witness ==
    /\ PushedOnDefault /\ flast.f = "scale"

\* The last operation was a filters_insert of a real stage below a stack that
\* held only the auto-inserted stage.
InsertedOnDefault ==
    /\ flast.op = "insert" /\ flast.pre_default /\ Len(flast.pre) = 1

\* C29 as stated: a filters_insert of a real stage f below the auto-inserted
\* stage leaves exactly [f]: the rebuild removes the auto-inserted stage and
\* keeps f.
C29_AsStated ==
    InsertedOnDefault => Stack = <<flast.f>>

\* The scratch buffers of filters_stack_data_buf that are allocated.
LiveBufs == {b \in 0..1 : filters_stack_data_buf[b] # "NULL"}

\* The stages of the stack that are neither the last one nor safe.
NeedScratch == {k \in 1..(Len(Stack) - 1) : ~safe(Stack[k])}

\* C30: after every completed rebuild at most two scratch buffers are
\* allocated; when the surface footprint is not zero their number is the
\* number of stages that are neither last nor safe, two at most: none when
\* no stage needs one, the first only when one stage does.
C30_ScratchCount ==
    flast.rebuilt
    => /\ Cardinality(LiveBufs) <= 2
       /\ screen_bytes # 0
          => /\ Cardinality(LiveBufs) = Min(2, Cardinality(NeedScratch))
             /\ Cardinality(NeedScratch) = 0 => LiveBufs = {}
             /\ Cardinality(NeedScratch) = 1 => LiveBufs = {0}

\* A stage has been removed from a full stack that had both scratch buffers:
\* the second one has been released.
C30_Witness ==
    /\ flast.op = "remove" /\ flast.drops = 0
    /\ Len(flast.pre) = 3 /\ Len(Stack) = 2
    /\ screen_bytes # 0
    /\ LiveBufs = {0}

\* The stack of the variables without its entry k (0-based).
StackWithout(k) ==
    [j \in 1..(filters_stack_size - 1) |->
        filters_stack[IF j - 1 < k THEN j - 1 ELSE j]]

\* The step drops a stage after a failed realloc.
DropStep == ~Idle /\ flast'.drops # flast.drops

\* C31: filters_stack_update returns whatever the stack holds and whichever
\* reallocs fail: a failed realloc removes one stage, the first that is not
\* safe, which is not the last one, the next pass runs on a stack one
\* shorter and fails no assert, and the rebuild ends with a stack that is not
\* empty.
C31_RebuildTerminates ==
    /\ [][DropStep =>
             /\ flast'.drops = flast.drops + 1
             /\ filters_stack_size' = filters_stack_size - 1
             /\ filters_stack_size' >= 1
             /\ \E k \in 0..(filters_stack_size - 2) :
                  /\ ~safe(filters_stack[k])
                  /\ \A m \in 0..(k - 1) : safe(filters_stack[m])
                  /\ Stack' = StackWithout(k)
             /\ filters_err' = filters_err]_vars
    /\ []((flast.rebuilt \/ flast.drops > 0) => filters_stack_size >= 1)
    /\ (~Idle ~> flast.rebuilt)

\* A rebuild has returned after two reallocs failed and two stages were
\* dropped.
C31_Witness ==
    /\ flast.rebuilt /\ flast.drops = 2
    /\ flast.op = "push" /\ Len(flast.pre) = 3

\* The buffers the two scratch descriptors stand for.
ScratchBufs == {"buf0", "buf1"}

\* Descriptor 0 is the emulated frame and the output of the last stage is
\* the display surface.
ChainEnds ==
    /\ filters_stack_data[0] = in_fd
    /\ filters_stack_data[filters_stack_size] = out_fd

\* The stages below the top (0-based indexes).
Below == 0..(filters_stack_size - 2)

\* A safe stage below the top writes the descriptor it reads.
SafeInPlace ==
    \A i \in Below :
       safe(filters_stack[i]) => filters_stack_data[i + 1] = filters_stack_data[i]

\* An unsafe stage below the top writes a scratch buffer that is not the
\* buffer it reads.
UnsafeToScratch ==
    \A i \in Below :
       ~safe(filters_stack[i])
       => /\ filters_stack_data[i + 1].buf \in ScratchBufs
          /\ filters_stack_data[i + 1].buf # filters_stack_data[i].buf

----------------------------------------------------------------------------
(* Properties of one stage *)

RECURSIVE SumRange(_, _, _)
\* The sum of the entries lo .. hi - 1 of table t.
SumRange(t, lo, hi) ==
    IF hi <= lo THEN 0
    ELSE IF hi = lo + 1 THEN t[lo]
    ELSE LET mid == (lo + hi) \div 2 IN SumRange(t, lo, mid) + SumRange(t, mid, hi)

\* The sum of the first n entries of table t.
SumTable(t, n) == SumRange(t, 0, n)

\* C11: when the scale stage does not fall back, its factors are at least 1,
\* not both 1, and the scaled input fits the output: W * factor_x <= output_w
\* and H * factor_y <= output_h; when it falls back the descriptor is marked
\* failed and the frame went through filter_off.
C11_AsStated ==
    slast.op = "scale" /\ slast.init =>
      IF slast.ran = "scale"
      THEN /\ fout.data.x_scale >= 1 /\ fout.data.y_scale >= 1
           /\ ~(fout.data.x_scale = 1 /\ fout.data.y_scale = 1)
           /\ slast.in.width * fout.data.x_scale <= slast.out.width
           /\ slast.in.height * fout.data.y_scale <= slast.out.height
      ELSE fout.failed /\ slast.ran = "off"

\* C12: when the stretch stage initialises, the entries of h_table add up to
\* the destination width and those of v_table to the destination height.
C12_AsStated ==
    slast.op = "stretch" /\ slast.init /\ slast.ran = "stretch" =>
      /\ SumTable(fout.data.h_table, slast.in.width) = fout.width
      /\ SumTable(fout.data.v_table, slast.in.height) = fout.height


----------------------------------------------------------------------------
(* Properties of the frames *)

\* In the last frame every stage of the stack ran and ended, and a stage
\* whose output descriptor was marked failed went through filter_off without
\* initialising, leaving the mark.
FramesDelegate ==
    flast.op = "frame" =>
    /\ Len(flast.log) = flast.size
    /\ \A k \in 1..Len(flast.log) :
         /\ ~flast.log[k].trap
         /\ flast.log[k].init /\ flast.log[k].ran = "off" => flast.log[k].post_failed
         /\ flast.log[k].pre_failed =>
              /\ flast.log[k].ran = "off"
              /\ ~flast.log[k].init
              /\ flast.log[k].post_failed

\* The last step was a completed rebuild, and it left no descriptor marked
\* failed or updated.
RebuildClears ==
    flast.op \in {"screen_init", "push", "insert", "remove", "pluck"} =>
      \A k \in 0..StackElems :
        ~filters_stack_data[k].failed /\ ~filters_stack_data[k].updated

\* C13: a stage whose output descriptor is marked failed delegates every
\* later frame to filter_off without initialising again; the next rebuild
\* clears failed and updated on every descriptor; every frame runs every
\* stage to its end.
C13_FailedUntilRebuild == FramesDelegate /\ RebuildClears

\* A frame has run two stages, one that had failed in an earlier frame and
\* one that had not.
C13_Witness ==
    /\ flast.op = "frame"
    /\ \E k \in 1..Len(flast.log) : flast.log[k].pre_failed
    /\ \E k \in 1..Len(flast.log) : ~flast.log[k].post_failed
    /\ filters_stack_size = 2


----------------------------------------------------------------------------
(* Properties of the graphics calls *)

\* C14: a call with 1 <= hz <= 1000 leaves video.height at 224 when pal is
\* false and at 240 when pal is true; a call with hz <= 0 or hz > 1000
\* returns 0 and leaves video, the screen and all that screen_init sets as
\* they were.
C14_HeightOrUnchanged ==
    glast.fn # "none" =>
      IF 1 <= glast.hz /\ glast.hz <= 1000
      THEN video.height = (IF glast.pal # 0 THEN 240 ELSE 224)
      ELSE glast.ret = 0 /\ GraphicsState = glast.pre

\* Both kinds of call have been seen: a reinit to PAL at 1000 Hz that drew
\* its frame, or one refused for 1001 Hz after a PAL call.
C14_Witness ==
    /\ glast.fn = "reinit"
    /\ gfx.pc = "idle"
    /\ \/ glast.hz = 1000 /\ glast.pal = 1 /\ glast.ret = 1 /\ video.height = 240
       \/ glast.hz = 1001 /\ glast.ret = 0 /\ video.height = 240


----------------------------------------------------------------------------
(* Properties of the events *)

\* The last event called handler h of control c.
InCalls(c, h) == \E i \in 1..Len(elast.calls) : elast.calls[i] = <<c, h>>

\* The key that went down is the key binding of b.
Bound(b) == elast.ksym = rc.k[b]

\* The key that came up is the key binding of b without its modifiers.
BoundUp(b) == elast.ksym = rc.k[b] % KEYSYM_MOD_META

\* The last event is of kind op and found the mode m, outside calibration.
EventIn(op, m) == elast.op = op /\ elast.pre = m /\ ~elast.pre_cal

\* The controls other than quit, stop and game genie.
PlainControls == CtlSet \ {"dgen_quit", "dgen_stop", "dgen_game_genie"}

Place(c) == CHOOSE i \in 1..Len(Controls) : Controls[i] = c

\* The place of the last control bound to the key whose handler stops the
\* events, game genie being below stop in control[].
LastStopper ==
    IF Bound("dgen_game_genie") THEN Place("dgen_game_genie") ELSE Place("dgen_stop")

C16_AsStated ==
    /\ elast.op = "keydown" /\ elast.pre = "STOPPED" =>
          /\ Bound("dgen_game_genie") => events = "STOPPED_GAME_GENIE"
          /\ Bound("dgen_prompt") => events = "STOPPED_PROMPT"
          /\ Bound("dgen_stop") => events = "STARTED"
          /\ Bound("dgen_quit") => elast.ret = 0
          /\ (\A b \in {"dgen_game_genie", "dgen_prompt", "dgen_stop", "dgen_quit"} :
                 ~Bound(b)) => events = "STOPPED"
          /\ elast.calls = <<>>
    /\ elast.op \in {"keyup", "motion"} /\ elast.pre = "STOPPED" =>
          events = "STOPPED" /\ elast.calls = <<>>

\* C16 amended: in STOPPED, outside calibration, a key going down is tested
\* against the game genie, prompt, quit and stop bindings in that order and
\* the first that matches decides: STOPPED_GAME_GENIE, STOPPED_PROMPT,
\* STARTED with pd_handle_events returning 0, or STARTED; a key that matches
\* none, a key coming up and a mouse motion leave STOPPED; no event calls a
\* press or release handler.
C16_KeysInStopped ==
    /\ EventIn("keydown", "STOPPED") =>
          /\ elast.calls = <<>>
          /\ IF Bound("dgen_game_genie")
             THEN events = "STOPPED_GAME_GENIE" /\ elast.ret = 1
             ELSE IF Bound("dgen_prompt")
             THEN events = "STOPPED_PROMPT" /\ elast.ret = 1
             ELSE IF Bound("dgen_quit")
             THEN events = "STARTED" /\ elast.ret = 0
             ELSE IF Bound("dgen_stop")
             THEN events = "STARTED" /\ elast.ret = 1
             ELSE events = "STOPPED" /\ elast.ret = 1
    /\ elast.op \in {"keyup", "motion"} /\ elast.pre = "STOPPED" /\ ~elast.pre_cal =>
          events = "STOPPED" /\ elast.calls = <<>> /\ elast.ret = 1

\* The stop key went down in STOPPED and resumed the emulation.
C16_Witness ==
    /\ EventIn("keydown", "STOPPED")
    /\ Bound("dgen_stop")
    /\ ~Bound("dgen_game_genie") /\ ~Bound("dgen_prompt") /\ ~Bound("dgen_quit")
    /\ events = "STARTED"
    /\ pd_freeze_ref = 0

\* C17 as stated: a turn of the loop of main() that starts with pd_freeze
\* true does not call one_frame.
C17_AsStated == ~(elast.op = "frame" /\ elast.pre_freeze /\ elast.one_frame)

\* The Game Genie modes.
GenieModes == {"GAME_GENIE", "STOPPED_GAME_GENIE"}

\* C18 as stated: in GAME_GENIE and STOPPED_GAME_GENIE, Enter with a
\* non-empty string calls the patch routine once with that string, empties
\* the input and leaves STARTED, respectively STOPPED; no other key calls the
\* patch routine.
C18_AsStated ==
    elast.op = "keydown" /\ elast.pre \in GenieModes /\ ~elast.pre_cal =>
       IF elast.ksym = SDLK_RETURN /\ elast.pre_buf # <<>>
       THEN /\ elast.patch = <<elast.pre_buf>>
            /\ input.buf = <<>>
            /\ input.pos = 0
            /\ events = IF elast.pre = "GAME_GENIE" THEN "STARTED" ELSE "STOPPED"
       ELSE elast.ksym # SDLK_RETURN => elast.patch = <<>>

\* C19: pd_freeze is true exactly when pd_freeze_ref is above zero;
\* restart_events, whose freeze(false) finds the count at zero, leaves count
\* and flag as they were; no assertion of freeze() fails, whatever the order
\* in which stop_events, restart_events and manage_calibration are called.
C19_FreezeCount ==
    /\ pd_freeze <=> pd_freeze_ref > 0
    /\ elast.op = "restart_events" /\ elast.pre_ref = 0 =>
          pd_freeze_ref = 0 /\ pd_freeze = elast.pre_freeze
    /\ loop.failed # "freeze"

\* restart_events was called with the count at zero, after manage_calibration
\* had frozen the emulation and an earlier restart_events had undone it.
C19_Witness ==
    /\ elast.op = "restart_events"
    /\ elast.pre_ref = 0
    /\ stopped = 1
    /\ calibrating

\* C20 as stated: whenever the mode is STARTED and no calibration is in
\* progress, pd_freeze_ref is 0 and pd_freeze is false, whatever the key
\* bindings.
C20_AsStated ==
    events = "STARTED" /\ ~calibrating => pd_freeze_ref = 0 /\ ~pd_freeze

\* The last event is a key going down during a calibration: it is routed to
\* manage_calibration, whose assertions held.
CalInput == elast.op = "keydown" /\ elast.pre_cal /\ loop.failed = "none"

\* C21 as stated: two inputs finish a step of the calibration. An input for
\* a step that has had its first one confirms the step; when that step is
\* the last of the steps before the terminating entry the calibration is
\* over: it is no longer in progress, the step state is reset, one binding
\* for each step is written to the control table and the freeze count taken
\* by the calibration is given back.
C21_AsStated ==
    CalInput /\ elast.pre_once =>
       IF elast.pre_open = NumSteps - 1
       THEN /\ ~calibrating
            /\ \A i \in 1..NumSteps : calibration_steps[i] = NoStep
            /\ Len(elast.commits) = NumSteps - 1
            /\ pd_freeze_ref = elast.pre_ref - 1
       ELSE FirstOpen(calibration_steps, 1) = elast.pre_open + 1

\* C22: one input does not finish a step of the calibration. The first
\* input for the first step that is not confirmed sets its once flag and
\* captures type and code, and nothing more: the step is not confirmed
\* twice and stays the first open one, the calibration stays in progress and
\* no binding is written. A step is left behind, a binding written or the
\* calibration ended only by an input that finds the step confirmed once.
C22_NoSingleInputFinal ==
    /\ CalInput /\ ~elast.pre_once =>
          /\ elast.pre_open \in 1..NumSteps
          /\ calibration_steps[elast.pre_open].once
          /\ ~calibration_steps[elast.pre_open].twice
          /\ calibration_steps[elast.pre_open].type = "RCBK"
          /\ calibration_steps[elast.pre_open].code = elast.ksym
    /\ (/\ elast.op \in {"keydown", "keyup", "motion", "calibrate"}
        /\ elast.pre_cal /\ ~elast.pre_once /\ loop.failed = "none") =>
          /\ calibrating
          /\ FirstOpen(calibration_steps, 1) = elast.pre_open
          /\ elast.commits = <<>>
    /\ \A i \in 1..NumSteps : calibration_steps[i].twice => calibration_steps[i].once

\* The first key of the first step went down: the step holds it, confirmed
\* once, and the calibration goes on.
C22_Witness ==
    /\ CalInput
    /\ ~elast.pre_once
    /\ elast.pre_open = 1
    /\ calibration_steps[1] =
          [once |-> TRUE, twice |-> FALSE, type |-> "RCBK", code |-> SDLK_a]
    /\ calibrating

C24_AsStated ==
    elast.op = "calibrate" /\ elast.cmd = "CMD_EINVAL" =>
       /\ calibrating_controller = elast.pre_ctlr
       /\ calibrating = elast.pre_cal
       /\ calibration_steps = elast.pre_steps
       /\ pd_freeze_ref = elast.pre_ref

\* The event that made pd_handle_events return 0 asked to quit: it is
\* SDL_QUIT, the quit key in STARTED or STOPPED, or an event whose last
\* handler called is that of quit, the handler that returns 0.
QuitRequested ==
    \/ elast.op = "quit"
    \/ /\ elast.op = "keydown"
       /\ elast.pre \in {"STARTED", "STOPPED"}
       /\ elast.ksym = rc.k["dgen_quit"]
    \/ /\ elast.calls # <<>>
       /\ elast.calls[Len(elast.calls)] = <<"dgen_quit", "press">>

\* C27: pd_handle_events returns 1 only when no motion release is due and SDL
\* has no event left, and then it has changed nothing since the last event;
\* it returns 0 only on an event that asked to quit; with finitely many
\* events in the queue every call returns.
C27_DrainsAndReturns ==
    /\ [][loop.pc = "events" /\ loop'.pc = "frame" =>
             loop.left = 0 /\ ~loop.mmr /\ UNCHANGED <<events, control, elast>>]_vars
    /\ [][loop.pc = "events" /\ loop'.pc = "done" =>
             elast'.ret = 0 /\ QuitRequested']_vars
    /\ [](loop.pc = "events" => <>(loop.pc \in {"frame", "done"}))

\* pd_handle_events has returned 1 after the last of the events of its queue,
\* a key that went down.
C27_Witness ==
    /\ loop.pc = "frame"
    /\ loop.left = 0
    /\ elast.op = "keydown"
    /\ elast.ret = 1

\* The calls of one turn of the loop of main() before pd_handle_events.
TurnCalls ==
    IF loop.dgen_sound THEN <<"one_frame", "pd_sound_write", "pd_graphics_update">>
    ELSE <<"one_frame", "pd_graphics_update">>

\* The calls of main() after its loop, the state saved or not.
ShutdownCalls ==
    {<<"ram_save">> \o saved \o <<"unplug", "pd_sound_deinit", "pd_quit">> :
        saved \in {<<>>, <<"md_save">>}}

\* C28: a turn of the loop of main() calls one_frame, pd_sound_write when
\* the sound is on, pd_graphics_update, then pd_handle_events, and a turn
\* starts only after pd_handle_events returned 1; once it has returned 0 the
\* only step left is the shutdown (save, unplug, pd_sound_deinit, pd_quit),
\* which does run, and nothing is called after it.
C28_LoopExitsOnZero ==
    /\ [][loop.pc = "frame" =>
             loop'.pc = "events" /\ elast'.op = "frame" /\ elast'.main = TurnCalls]_vars
    /\ [][loop.pc # "frame" /\ elast' # elast => elast'.op # "frame"]_vars
    /\ [][loop'.pc = "frame" /\ loop.pc # "frame" =>
             loop.pc = "events" /\ elast'.ret = 1]_vars
    /\ [][loop.pc = "events" /\ elast'.ret = 0 => loop'.pc = "done"]_vars
    /\ [][loop.pc = "done" =>
             /\ loop'.pc = "exited"
             /\ elast'.op = "shutdown"
             /\ elast'.main \in ShutdownCalls]_vars
    /\ [][loop.pc # "exited"]_vars
    /\ (loop.pc = "done" ~> loop.pc = "exited")

\* main() has returned after a quit key, the state saved on the way out.
C28_Witness ==
    /\ loop.pc = "exited"
    /\ elast.op = "shutdown"
    /\ elast.main = <<"ram_save", "md_save", "unplug", "pd_sound_deinit", "pd_quit">>
    /\ ~loop.dgen_sound

\* Some control has its pressed flag set.
SomePressed == \E c \in CtlSet : control[c].pressed

\* C33 as stated: whenever events is not STARTED no control has its pressed
\* flag set.
C33_AsStated == events # "STARTED" => ~SomePressed

\* C34 as stated: in GAME_GENIE and STOPPED_GAME_GENIE the Escape key aborts
\* the text entry: no patch is applied and the dispatcher leaves the entry
\* mode, for STARTED respectively STOPPED.
C34_AsStated ==
    /\ elast.op = "keydown"
    /\ elast.pre \in GenieModes
    /\ ~elast.pre_cal
    /\ elast.ksym = SDLK_ESCAPE
    => /\ elast.patch = <<>>
       /\ events = IF elast.pre = "GAME_GENIE" THEN "STARTED" ELSE "STOPPED"

\* The prompt modes.
PromptModes == {"PROMPT", "STOPPED_PROMPT"}

\* No event takes the dispatcher out of a prompt mode.
PromptStays == [][(events \in PromptModes) => (events' = events)]_vars

\* C35 as stated: in PROMPT and STOPPED_PROMPT the key-down events drive the
\* text input of the Game Genie entry, so that Escape, which aborts the
\* entry, takes STOPPED_PROMPT back to STOPPED or STARTED.
C35_AsStated ==
    /\ elast.op = "keydown"
    /\ elast.pre \in PromptModes
    /\ ~elast.pre_cal
    /\ elast.ksym = SDLK_ESCAPE
    => events \in {"STOPPED", "STARTED"}

\* C39 as stated: whenever a calibration is in progress the selected
\* controller is 0 or 1, so that the assertion at the top of
\* manage_calibration holds for the input routed to it, whatever calibrate
\* commands, valid and invalid, and inputs came before.
C39_AsStated == calibrating => calibrating_controller < 2


----------------------------------------------------------------------------
(* Properties of the combos *)

\* The assigned entries of combos[], in the order of the array.
Tracked == SelectSeq(combos, LAMBDA e : e.assigned)

\* The codes that are held, as entries.
HeldItems == [i \in 1..Len(held) |-> Item(held[i])]

\* C25 as stated: as long as no more codes were held at once than combos[] has
\* entries, the assigned entries are the codes that are held, each once, from
\* the first entry on and in the order they went down; a code that goes down
\* while it is held and a code that comes up while it is not held change
\* nothing.
C25_AsStated ==
    ~clast.over =>
       /\ Tracked = HeldItems
       /\ \A i \in 1..MaxCombos :
             combos[i].assigned => \A k \in 1..i : combos[k].assigned
       /\ clast.op = "press" /\ PosIn(clast.pre_held, [type |-> clast.pair.type, code |-> clast.pair.code]) # 0 =>
             combos = clast.pre
       /\ clast.op = "release" /\ PosIn(clast.pre_held, [type |-> clast.pair.type, code |-> clast.pair.code]) = 0 =>
             combos = clast.pre

\* The members of an array item[]: its assigned entries.
Members(item) == {item[i] : i \in {k \in 1..Len(item) : item[k].assigned}}

\* C26 as stated: check_combos returns true exactly when item[] has a member
\* and each of its members is in the tracked set, which is so exactly when
\* each of its members is held.
C26_AsStated ==
    clast.op = "check" =>
       /\ clast.ret <=>
             /\ Members(clast.item) # {}
             /\ \A m \in Members(clast.item) : \E i \in 1..Len(Tracked) : Tracked[i] = m
       /\ clast.ret <=>
             /\ Members(clast.item) # {}
             /\ \A m \in Members(clast.item) : \E i \in 1..Len(held) : Item(held[i]) = m

\* C37 as stated: for every key and every combination of shift, ctrl, alt
\* and meta held at the key-down, the key-up of the key removes the entry its
\* key-down added, and the entries of the keys that are still down stay.
C37_AsStated ==
    clast.op = "keyup" =>
       /\ \A i \in 1..MaxCombos : combos[i].assigned => combos[i] # clast.pair
       /\ \A j \in 1..Len(held) :
             (\E i \in 1..MaxCombos : clast.pre[i].assigned /\ clast.pre[i] = Item(held[j]))
             => \E i \in 1..MaxCombos : combos[i].assigned /\ combos[i] = Item(held[j])

\* Every entry of the array is assigned.
Full(cs) == Len(cs) = MaxCombos /\ \A i \in 1..MaxCombos : cs[i].assigned

\* e is an entry of the array.
EntryOf(cs, e) == \E i \in 1..MaxCombos : cs[i] = e

\* C40 as stated: with every entry of combos[] assigned, the release of a
\* code that is tracked removes that entry and no other, which leaves
\* MaxCombos - 1 assigned entries, none of them twice; the press of a code
\* that is not tracked changes nothing.
C40_AsStated ==
    Full(clast.pre) =>
       /\ clast.op = "release" /\ EntryOf(clast.pre, clast.pair) =>
             /\ Len(Tracked) = MaxCombos - 1
             /\ ~EntryOf(combos, clast.pair)
             /\ \A i, j \in 1..Len(Tracked) : Tracked[i] = Tracked[j] => i = j
             /\ \A i \in 1..MaxCombos :
                   clast.pre[i] # clast.pair => EntryOf(combos, clast.pre[i])
       /\ clast.op = "press" /\ ~EntryOf(clast.pre, clast.pair) =>
             combos = clast.pre

\* The press of a code that is not tracked, with every entry assigned,
\* changes nothing.
FullPressKeeps ==
    Full(clast.pre) /\ clast.op = "press" /\ ~EntryOf(clast.pre, clast.pair)
       => combos = clast.pre

----------------------------------------------------------------------------
(* Screenshot properties *)

\* C36 as stated: the probe of the screenshot file name terminates whatever
\* the state of the screenshots directory: a call of do_screenshot that has
\* reached the label retry leaves it, with a file to write or giving up.
C36_AsStated == (shot.pc = "retry") ~> (shot.pc # "retry")

----------------------------------------------------------------------------
(* Text input properties *)

\* Every index of the input buffer that the last call of kb_input read or
\* wrote is inside the buffer.
KbBufInside == kb.buf_hi < kb.input.size

\* Every row of history that the last call of kb_input read is a row of
\* history.
KbHistInside ==
    \A i \in 1..Len(kb.hist_rows) : kb.hist_rows[i] \in 0..(HISTORY_LEN - 1)

\* The cursor is inside the buffer and the text is terminated inside it.
KbCursorInside ==
    /\ 0 <= kb.input.pos
    /\ kb.input.pos <= Len(kb.input.buf)
    /\ Len(kb.input.buf) <= kb.input.size - 1

\* C38 as stated: after any sequence of keys fed to kb_input the cursor is
\* between 0 and size - 1, the text is terminated inside the buffer, every
\* read and write of the input buffer is at an index below size and every
\* read of history is at a row of history, Up and Down with an empty history
\* included.
C38_AsStated == KbCursorInside /\ KbBufInside /\ KbHistInside

====
